---------------------------- MODULE Spec2Model ----------------------------
(***************************************************************************)
(* The patch engine of ByteCraft (src/unnamed/part_000, lines 326-906):    *)
(* the directive parser, the context matcher, the chunk builder and the    *)
(* commit builder.                                                         *)
(*                                                                         *)
(* A string is a sequence of characters (one-character TLA+ strings; the   *)
(* non-ASCII code points of the punctuation table are written "U+XXXX").   *)
(* A text is a string that may hold the newline character; an array of     *)
(* lines is a sequence of strings.                                         *)
(***************************************************************************)
EXTENDS Integers, Sequences, FiniteSets, TLC

VARIABLES
    pc,       \* position of the caller: which function runs next
    text,     \* argument of text_to_patch: the patch text
    orig,     \* argument of text_to_patch / patch_to_commit: path -> content
    lines,    \* Parser.lines
    index,    \* Parser.index
    patch,    \* Parser.patch.actions, in insertion order
    fuzz,     \* Parser.fuzz
    upd,      \* frame of the parse_update_file call in progress
    iters,    \* iterations of the parse_update_file loop in the current call
    err,      \* the DiffError thrown, "none" while none was
    detail,   \* what the message of the DiffError carries besides its kind
    commit,   \* the Commit built by patch_to_commit
    args,     \* arguments of a direct call of a pure function
    ret,      \* its result
    files,    \* the file system the accessors of process_patch act on
    calls,    \* the accessor calls made so far, in order
    needed,   \* load_files: the paths still to open
    applied,  \* apply_commit: the number of Commit entries done
    step,     \* apply_commit: the accessor calls made for the current entry
    currentSessionId,  \* ConversationHistoryManager.currentSessionId
    sessions, \* the session directories under historyDir, by session id
    uuids,    \* the number of ids generateUuid has given out
    tasks     \* the calls of addMessage that are not awaited by their caller

\* the state of process_patch around the parser
io == <<files, calls, needed, applied, step>>

\* the state of the ConversationHistoryManager and of its directory
hist == <<currentSessionId, sessions, uuids, tasks>>

vars == <<pc, text, orig, lines, index, patch, fuzz, upd, iters, err, detail, commit, args, ret,
          io, hist>>

-----------------------------------------------------------------------------
(* Bounds of the model *)

MaxSegments == 3
MaxIters == 4
MaxFileLines == 3
MaxCtxLines == 2
MaxTextLen == 3
MaxChunks == 2

-----------------------------------------------------------------------------
(* Strings *)

NL == "\n"

Min(a, b) == IF a < b THEN a ELSE b
Max(a, b) == IF a < b THEN b ELSE a

\* String.prototype.startsWith
StartsWith(s, p) == Len(p) <= Len(s) /\ SubSeq(s, 1, Len(p)) = p

\* String.prototype.slice(k) for k >= 0
StrSlice(s, k) == SubSeq(s, k + 1, Len(s))

\* Array.prototype.slice(b, e): a negative index counts from the end
ArraySlice(a, b, e) ==
    LET n  == Len(a)
        lo == IF b < 0 THEN Max(n + b, 0) ELSE Min(b, n)
        hi == IF e < 0 THEN Max(n + e, 0) ELSE Min(e, n)
    IN  IF lo < hi THEN SubSeq(a, lo + 1, hi) ELSE <<>>

\* a[i] of a JavaScript array (0-based); undefined compares unequal to all
HasLine(a, i) == i >= 0 /\ i < Len(a)

\* the white space String.prototype.trim removes (WhiteSpace and
\* LineTerminator of ECMAScript, as far as the model's alphabet goes)
IsWhiteSpace(c) == c \in {" ", "\t", NL, "U+00A0", "U+202F"}

RECURSIVE trimEnd(_)
trimEnd(s) ==
    IF s # <<>> /\ IsWhiteSpace(s[Len(s)]) THEN trimEnd(SubSeq(s, 1, Len(s) - 1))
    ELSE s

RECURSIVE trimStart(_)
trimStart(s) ==
    IF s # <<>> /\ IsWhiteSpace(s[1]) THEN trimStart(Tail(s)) ELSE s

trim(s) == trimStart(trimEnd(s))

\* Array.prototype.join("\n")
RECURSIVE join(_)
join(a) ==
    IF a = <<>> THEN <<>>
    ELSE IF Len(a) = 1 THEN a[1]
    ELSE a[1] \o <<NL>> \o join(Tail(a))

\* the position of the first line break of s, 0 when it has none
firstBreak(s) ==
    LET at == {i \in 1..Len(s) : s[i] = NL}
    IN  IF at = {} THEN 0 ELSE CHOOSE i \in at : \A j \in at : i <= j

\* String.prototype.split("\n"): never empty, "" splits to [""]
RECURSIVE split(_)
split(s) ==
    LET k == firstBreak(s)
    IN  IF k = 0 THEN <<s>>
        ELSE <<SubSeq(s, 1, k - 1)>> \o split(SubSeq(s, k + 1, Len(s)))

-----------------------------------------------------------------------------
(* The markers *)

ADD_FILE_PREFIX == <<"*", "*", "*", " ", "A", "d", "d", " ", "F", "i", "l", "e", ":", " ">>
DELETE_FILE_PREFIX == <<"*", "*", "*", " ", "D", "e", "l", "e", "t", "e", " ", "F", "i", "l", "e", ":", " ">>
UPDATE_FILE_PREFIX == <<"*", "*", "*", " ", "U", "p", "d", "a", "t", "e", " ", "F", "i", "l", "e", ":", " ">>
MOVE_FILE_TO_PREFIX == <<"*", "*", "*", " ", "M", "o", "v", "e", " ", "F", "i", "l", "e", " ", "t", "o", ":", " ">>
PATCH_PREFIX == <<"*", "*", "*", " ", "B", "e", "g", "i", "n", " ", "P", "a", "t", "c", "h", NL>>
PATCH_SUFFIX == <<"*", "*", "*", " ", "E", "n", "d", " ", "P", "a", "t", "c", "h">>
END_OF_FILE_PREFIX == <<"*", "*", "*", " ", "E", "O", "F">>
HUNK_ADD_LINE_PREFIX == "+"

-----------------------------------------------------------------------------
(* Canonicalizer *)

\* no character replaced
PUNCT_EQUIV_none(c) == c

\* the dash and the en dash replaced by each other
PUNCT_EQUIV_swaps(c) ==
    CASE c = "-" -> "U+2013"
      [] c = "U+2013" -> "-"
      [] OTHER -> c

PUNCT_EQUIV(c) ==
    CASE c \in {"-", "U+2010", "U+2011", "U+2012", "U+2013", "U+2014", "U+2212"} -> "-"
      [] c \in {"\"", "U+201C", "U+201D", "U+201E", "U+00AB", "U+00BB"} -> "\""
      [] c \in {"'", "U+2018", "U+2019", "U+201B"} -> "'"
      [] c \in {"U+00A0", "U+202F"} -> " "
      [] OTHER -> c

\* String.prototype.normalize("NFC") on the model's alphabet: the only
\* canonical composition in it is e + COMBINING ACUTE ACCENT -> U+00E9.
RECURSIVE normalizeNFC(_)
normalizeNFC(s) ==
    IF Len(s) < 2 THEN s
    ELSE IF s[1] = "e" /\ s[2] = "U+0301"
         THEN <<"U+00E9">> \o normalizeNFC(SubSeq(s, 3, Len(s)))
         ELSE <<s[1]>> \o normalizeNFC(Tail(s))

canon(s) ==
    LET n == normalizeNFC(s) IN [i \in 1..Len(n) |-> PUNCT_EQUIV(n[i])]

-----------------------------------------------------------------------------
(* Context Matcher *)

\* what a tier's scan does to a line before the comparison
stripLine(tier, s) ==
    IF tier = "exact" THEN s ELSE IF tier = "trimEnd" THEN trimEnd(s) ELSE trim(s)

stripLines(tier, a) == [k \in 1..Len(a) |-> stripLine(tier, a[k])]

\* a scan that takes a window cut short by the end of the file for a match
\* when it equals the context's first lines
RECURSIVE scan_truncated(_, _, _, _, _)
scan_truncated(tier, fileLines, context, i, n) ==
    IF i >= n THEN -1
    ELSE LET window  == ArraySlice(fileLines, i, i + Len(context))
             segment == canon(join(stripLines(tier, window)))
             ctx     == canon(join(stripLines(tier, SubSeq(context, 1, Len(window)))))
         IN  IF segment = ctx THEN i
             ELSE scan_truncated(tier, fileLines, context, i + 1, n)

\* one scan of find_context_core: the first i in start..len-1 whose window,
\* each line stripped as the tier says, equals the context likewise, or -1
RECURSIVE scan(_, _, _, _, _)
scan(tier, fileLines, context, i, n) ==
    IF i >= n THEN -1
    ELSE LET segment == canon(join(stripLines(tier, ArraySlice(fileLines, i, i + Len(context)))))
             ctx     == canon(join(stripLines(tier, context)))
         IN  IF segment = ctx THEN i
             ELSE scan(tier, fileLines, context, i + 1, n)

FuzzTrimEnd == 1
FuzzTrim == 100

\* the fallback of a hunk closed by *** EOF penalized like a trimmed match
EofPenalty_asTrim == FuzzTrim

EofPenalty == 10000

\* a single pass that takes the first window matching at any tier
RECURSIVE scanAnyTier(_, _, _)
scanAnyTier(fileLines, context, i) ==
    IF i >= Len(fileLines) THEN <<-1, 0>>
    ELSE IF scan("exact", fileLines, context, i, i + 1) # -1 THEN <<i, 0>>
    ELSE IF scan("trimEnd", fileLines, context, i, i + 1) # -1 THEN <<i, FuzzTrimEnd>>
    ELSE IF scan("trim", fileLines, context, i, i + 1) # -1 THEN <<i, FuzzTrim>>
    ELSE scanAnyTier(fileLines, context, i + 1)

find_context_core_anyTier(fileLines, context, start) ==
    IF Len(context) = 0 THEN <<start, 0>> ELSE scanAnyTier(fileLines, context, start)

\* the three scans, each begun one line too late
find_context_core_skipsStart(fileLines, context, start) ==
    IF Len(context) = 0 THEN <<start, 0>>
    ELSE LET e == scan("exact", fileLines, context, start + 1, Len(fileLines))
             r == scan("trimEnd", fileLines, context, start + 1, Len(fileLines))
             t == scan("trim", fileLines, context, start + 1, Len(fileLines))
         IN  IF e # -1 THEN <<e, 0>>
             ELSE IF r # -1 THEN <<r, FuzzTrimEnd>>
             ELSE IF t # -1 THEN <<t, FuzzTrim>>
             ELSE <<-1, 0>>

\* an empty context block matched at the top of the file
find_context_core_emptyAtTop(fileLines, context, start) ==
    IF Len(context) = 0 THEN <<0, 0>>
    ELSE LET e == scan("exact", fileLines, context, start, Len(fileLines))
             r == scan("trimEnd", fileLines, context, start, Len(fileLines))
             t == scan("trim", fileLines, context, start, Len(fileLines))
         IN  IF e # -1 THEN <<e, 0>>
             ELSE IF r # -1 THEN <<r, FuzzTrimEnd>>
             ELSE IF t # -1 THEN <<t, FuzzTrim>>
             ELSE <<-1, 0>>

find_context_core(fileLines, context, start) ==
    IF Len(context) = 0 THEN <<start, 0>>
    ELSE LET e == scan("exact", fileLines, context, start, Len(fileLines))
         IN  IF e # -1 THEN <<e, 0>>
             ELSE LET r == scan("trimEnd", fileLines, context, start, Len(fileLines))
                  IN  IF r # -1 THEN <<r, FuzzTrimEnd>>
                      ELSE LET t == scan("trim", fileLines, context, start, Len(fileLines))
                           IN  IF t # -1 THEN <<t, FuzzTrim>>
                               ELSE <<-1, 0>>

\* the end-of-file attempt begun at the top of the file
eofStart_top(fileLines, context) == 0

\* the penalty of the scan from start added to its index, not to its fuzz
find_context_penalizedIndex(fileLines, context, start, eof) ==
    IF eof
    THEN LET first == find_context_core(fileLines, context, Len(fileLines) - Len(context))
         IN  IF first[1] # -1 THEN first
             ELSE LET second == find_context_core(fileLines, context, start)
                  IN  <<second[1] + EofPenalty, second[2]>>
    ELSE find_context_core(fileLines, context, start)

\* where the end-of-file attempt of find_context starts
eofStart(fileLines, context) == Len(fileLines) - Len(context)

find_context(fileLines, context, start, eof) ==
    IF eof
    THEN LET first == find_context_core(fileLines, context, eofStart(fileLines, context))
         IN  IF first[1] # -1 THEN first
             ELSE LET second == find_context_core(fileLines, context, start)
                  IN  <<second[1], second[2] + EofPenalty>>
    ELSE find_context_core(fileLines, context, start)

-----------------------------------------------------------------------------
(* Chunk Builder *)

\* the lines at which peek_next_section stops without consuming
SectionBreaks ==
    {<<"@", "@">>, PATCH_SUFFIX, UPDATE_FILE_PREFIX, DELETE_FILE_PREFIX,
     ADD_FILE_PREFIX, END_OF_FILE_PREFIX}

Chunk(o, d, i) == [orig_index |-> o, del_lines |-> d, ins_lines |-> i]

\* the chunk pushed with the length of old as its orig_index
flush_atEnd(st) ==
    IF Len(st.insLines) > 0 \/ Len(st.delLines) > 0
    THEN Append(st.chunks, Chunk(Len(st.old), st.delLines, st.insLines))
    ELSE st.chunks

\* the chunk pushed when the pending deletions/insertions are closed off
flush(st) ==
    IF Len(st.insLines) > 0 \/ Len(st.delLines) > 0
    THEN Append(st.chunks, Chunk(Len(st.old) - Len(st.delLines), st.delLines, st.insLines))
    ELSE st.chunks

\* the mode a hunk line puts the scan in, by its first character
lineMode(s) ==
    IF s # <<>> /\ s[1] = HUNK_ADD_LINE_PREFIX THEN "add"
    ELSE IF s # <<>> /\ s[1] = "-" THEN "delete"
    ELSE "keep"

\* the line with its marker removed; an unmarked line is taken whole
lineBody(s) ==
    IF s # <<>> /\ s[1] \in {HUNK_ADD_LINE_PREFIX, "-", " "} THEN StrSlice(s, 1)
    ELSE StrSlice(<<" ">> \o s, 1)

\* one pass of the while loop of peek_next_section
peekStep(st, s) ==
    LET mode   == lineMode(s)
        line   == lineBody(s)
        closed == mode = "keep" /\ st.mode # mode
        chunks == IF closed THEN flush(st) ELSE st.chunks
        del0   == IF closed THEN <<>> ELSE st.delLines
        ins0   == IF closed THEN <<>> ELSE st.insLines
    IN  [index    |-> st.index + 1,
         old      |-> IF mode = "add" THEN st.old ELSE Append(st.old, line),
         delLines |-> IF mode = "delete" THEN Append(del0, line) ELSE del0,
         insLines |-> IF mode = "add" THEN Append(ins0, line) ELSE ins0,
         chunks   |-> chunks,
         mode     |-> mode]

RECURSIVE peekLoop(_, _)
peekLoop(ls, st) ==
    IF st.index >= Len(ls) THEN [st |-> st, threw |-> FALSE]
    ELSE LET s == ls[st.index + 1]
         IN  IF \E p \in SectionBreaks : StartsWith(s, trim(p))
             THEN [st |-> st, threw |-> FALSE]
             ELSE IF s = <<"*", "*", "*">> THEN [st |-> st, threw |-> FALSE]
             ELSE IF StartsWith(s, <<"*", "*", "*">>) THEN [st |-> st, threw |-> TRUE]
             ELSE peekLoop(ls, peekStep(st, s))

\* [context block, chunks, next index, is_eof], or threw (Invalid Line)
peek_next_section(ls, initialIndex) ==
    LET r  == peekLoop(ls, [index |-> initialIndex, old |-> <<>>, delLines |-> <<>>,
                            insLines |-> <<>>, chunks |-> <<>>, mode |-> "keep"])
        st == r.st
        eof == HasLine(ls, st.index) /\ ls[st.index + 1] = END_OF_FILE_PREFIX
    IN  [old    |-> st.old,
         chunks |-> flush(st),
         index  |-> IF eof THEN st.index + 1 ELSE st.index,
         eof    |-> eof,
         threw  |-> r.threw]

-----------------------------------------------------------------------------
(* Commit Builder *)

\* the loop without the test of the cursor against the chunk's orig_index
RECURSIVE applyChunks_noCursorTest(_, _, _, _, _)
applyChunks_noCursorTest(origLines, chunks, k, destLines, origIndex) ==
    IF k > Len(chunks)
    THEN [err |-> "none",
          destLines |-> destLines \o ArraySlice(origLines, origIndex, Len(origLines))]
    ELSE LET chunk == chunks[k]
         IN  IF chunk.orig_index > Len(origLines)
             THEN [err |-> "ChunkIndexTooLarge", destLines |-> <<>>]
             ELSE applyChunks_noCursorTest(origLines, chunks, k + 1,
                      destLines \o ArraySlice(origLines, origIndex, chunk.orig_index)
                                \o chunk.ins_lines,
                      chunk.orig_index + Len(chunk.del_lines))

\* the for loop of _get_updated_file over action.chunks, from chunk k on:
\* destLines and origIndex so far, or the DiffError thrown
RECURSIVE applyChunks(_, _, _, _, _)
applyChunks(origLines, chunks, k, destLines, origIndex) ==
    IF k > Len(chunks)
    THEN [err |-> "none",
          destLines |-> destLines \o ArraySlice(origLines, origIndex, Len(origLines))]
    ELSE LET chunk == chunks[k]
         IN  IF chunk.orig_index > Len(origLines)
             THEN [err |-> "ChunkIndexTooLarge", destLines |-> <<>>]
             ELSE IF origIndex > chunk.orig_index
             THEN [err |-> "ChunkOverlap", destLines |-> <<>>]
             ELSE applyChunks(origLines, chunks, k + 1,
                      destLines \o ArraySlice(origLines, origIndex, chunk.orig_index)
                                \o chunk.ins_lines,
                      chunk.orig_index + Len(chunk.del_lines))

\* the cursor not advanced past the deleted lines
_get_updated_file_keepsDeleted(content, chunks) ==
    LET kept == [k \in 1..Len(chunks) |-> [chunks[k] EXCEPT !.del_lines = <<>>]]
        r    == applyChunks(split(content), kept, 1, <<>>, 0)
    IN  [err |-> r.err, text |-> join(r.destLines)]

\* [err, text]: the new content of the file, or the DiffError thrown
_get_updated_file(content, chunks) ==
    LET r == applyChunks(split(content), chunks, 1, <<>>, 0)
    IN  [err |-> r.err, text |-> join(r.destLines)]

-----------------------------------------------------------------------------
(* Directive Parser: the methods of class Parser *)

Undefined == <<"undefined">>

\* Parser.is_done(prefixes)
is_done(ls, idx, prefixes) ==
    \/ idx >= Len(ls)
    \/ \E p \in prefixes : StartsWith(ls[idx + 1], trim(p))

\* Parser.startswith(prefix); lines[index] of an index past the end is
\* undefined, and the call a TypeError
startswith(ls, idx, prefix) == HasLine(ls, idx) /\ StartsWith(ls[idx + 1], prefix)

\* Parser.read_str(prefix): the rest of the current line and the index after
\* it when the line starts with prefix, "" and the index unchanged otherwise
read_str(ls, idx, prefix) ==
    IF idx >= Len(ls) THEN [threw |-> TRUE, text |-> <<>>, index |-> idx]
    ELSE IF StartsWith(ls[idx + 1], prefix)
         THEN [threw |-> FALSE, text |-> StrSlice(ls[idx + 1], Len(prefix)), index |-> idx + 1]
         ELSE [threw |-> FALSE, text |-> <<>>, index |-> idx]

\* the property names every plain object inherits from Object.prototype:
\* obj[name] is set and (name in obj) is true of them whatever obj holds
ObjectPrototypeNames ==
    { <<"c", "o", "n", "s", "t", "r", "u", "c", "t", "o", "r">>,
      <<"h", "a", "s", "O", "w", "n", "P", "r", "o", "p", "e", "r", "t", "y">>,
      <<"i", "s", "P", "r", "o", "t", "o", "t", "y", "p", "e", "O", "f">>,
      <<"p", "r", "o", "p", "e", "r", "t", "y", "I", "s", "E", "n", "u", "m", "e", "r", "a", "b", "l", "e">>,
      <<"t", "o", "L", "o", "c", "a", "l", "e", "S", "t", "r", "i", "n", "g">>,
      <<"t", "o", "S", "t", "r", "i", "n", "g">>,
      <<"v", "a", "l", "u", "e", "O", "f">>,
      <<"_", "_", "p", "r", "o", "t", "o", "_", "_">>,
      <<"_", "_", "d", "e", "f", "i", "n", "e", "G", "e", "t", "t", "e", "r", "_", "_">>,
      <<"_", "_", "d", "e", "f", "i", "n", "e", "S", "e", "t", "t", "e", "r", "_", "_">>,
      <<"_", "_", "l", "o", "o", "k", "u", "p", "G", "e", "t", "t", "e", "r", "_", "_">>,
      <<"_", "_", "l", "o", "o", "k", "u", "p", "S", "e", "t", "t", "e", "r", "_", "_">> }

\* the paths of patch.actions
PatchPaths(pt) == {pt[i].path : i \in 1..Len(pt)}

\* no test for an earlier directive of the same path
isDuplicate_never(pt, path) == FALSE

\* no test for an Add target that exists
targetExists_never(og, path) == FALSE

\* this.patch.actions[path] is set: an earlier directive named the path
isDuplicate(pt, path) ==
    \/ \E i \in 1..Len(pt) : pt[i].path = path
    \/ path \in ObjectPrototypeNames

\* !(path in this.current_files), of an Update or Delete header
targetMissing(og, path) == ~(path \in DOMAIN og \/ path \in ObjectPrototypeNames)

\* path in this.current_files, of an Add header
targetExists(og, path) == path \in DOMAIN og \/ path \in ObjectPrototypeNames

\* patch.actions[path]
ActionOf(pt, path) == pt[CHOOSE i \in 1..Len(pt) : pt[i].path = path]

PatchAction(path, type, new_file, chunks, move_path) ==
    [path |-> path, type |-> type, new_file |-> new_file, chunks |-> chunks,
     move_path |-> move_path]

\* the boundaries of a file action's body
UpdateBoundaries ==
    {PATCH_SUFFIX, UPDATE_FILE_PREFIX, DELETE_FILE_PREFIX, ADD_FILE_PREFIX,
     END_OF_FILE_PREFIX}

AddBoundaries ==
    {PATCH_SUFFIX, UPDATE_FILE_PREFIX, DELETE_FILE_PREFIX, ADD_FILE_PREFIX}

\* parse_add_file with the lines pushed whole, the + not sliced off
RECURSIVE parse_add_file_keepsMarker(_, _, _)
parse_add_file_keepsMarker(ls, idx, acc) ==
    IF is_done(ls, idx, AddBoundaries)
    THEN [err |-> "none", new_file |-> join(acc), index |-> idx]
    ELSE LET s == ls[idx + 1]
         IN  IF ~StartsWith(s, <<HUNK_ADD_LINE_PREFIX>>)
             THEN [err |-> "InvalidAddFileLine", new_file |-> <<>>, index |-> idx + 1]
             ELSE parse_add_file_keepsMarker(ls, idx + 1, Append(acc, s))

\* Parser.parse_add_file: [err, lines, index]
RECURSIVE parse_add_file(_, _, _)
parse_add_file(ls, idx, acc) ==
    IF is_done(ls, idx, AddBoundaries)
    THEN [err |-> "none", new_file |-> join(acc), index |-> idx]
    ELSE LET s == ls[idx + 1]
         IN  IF ~StartsWith(s, <<HUNK_ADD_LINE_PREFIX>>)
             THEN [err |-> "InvalidAddFileLine", new_file |-> <<>>, index |-> idx + 1]
             ELSE parse_add_file(ls, idx + 1, Append(acc, StrSlice(s, 1)))

\* the chunks of a hunk left at their local offsets
shiftChunks_unshifted(chunks, newIndex) == chunks

\* the chunks of a hunk, shifted by the index its context was found at
shiftChunks(chunks, newIndex) ==
    [k \in 1..Len(chunks) |->
        [chunks[k] EXCEPT !.orig_index = chunks[k].orig_index + newIndex]]

\* the envelope test of text_to_patch on the split lines: the reason of
\* the DiffError, "none" when the lines pass
envelope(ls) ==
    IF Len(ls) < 2 THEN "TooFewLines"
    ELSE IF ~StartsWith(ls[1], trim(PATCH_PREFIX)) THEN "BadPrefix"
    ELSE IF ls[Len(ls)] # trim(PATCH_SUFFIX) THEN "BadSuffix"
    ELSE "none"

-----------------------------------------------------------------------------
(* The inputs of text_to_patch *)

\* the original file set: p exists and holds the lines a, b; q, r and
\* toString do not
PathP == <<"p">>
PathQ == <<"q">>
PathR == <<"r">>
PathToString == <<"t", "o", "S", "t", "r", "i", "n", "g">>
Originals == [x \in {PathP} |-> <<"a", NL, "b">>]

MOVE_TO_OF_GRAMMAR == <<"*", "*", "*", " ", "M", "o", "v", "e", " ", "t", "o", ":", " ">>
BEGIN_PATCH == <<"*", "*", "*", " ", "B", "e", "g", "i", "n", " ", "P", "a", "t", "c", "h">>

\* the runs of lines a patch body is put together from
Segments ==
    { <<UPDATE_FILE_PREFIX \o PathP>>,
      <<UPDATE_FILE_PREFIX \o PathQ>>,
      <<DELETE_FILE_PREFIX \o PathP>>,
      <<DELETE_FILE_PREFIX \o PathQ>>,
      <<ADD_FILE_PREFIX \o PathP>>,
      <<ADD_FILE_PREFIX \o PathQ>>,
      <<DELETE_FILE_PREFIX \o PathToString>>,
      <<MOVE_FILE_TO_PREFIX \o PathR>>,
      <<MOVE_TO_OF_GRAMMAR \o PathR>>,
      << <<" ", "a">>, <<"-", "b">> >>,
      << <<"@", "@">>, <<"-", "b">>, END_OF_FILE_PREFIX >>,
      << <<"@", "@", " ", "h">>, <<"a">>, <<"+", "c">> >>,
      << <<"+", "c">> >>,
      << <<"*", "*", "*">> >>,
      << <<"@", "@", "x">> >> }

\* the lines of the segments sgs, in order
RECURSIVE concat(_)
concat(sgs) == IF sgs = <<>> THEN <<>> ELSE sgs[1] \o concat(Tail(sgs))

\* a well-enveloped patch text of at most MaxSegments segments
IsFullText(t) ==
    \E k \in 0..MaxSegments : \E sgs \in [1..k -> Segments] :
        t = join(<<BEGIN_PATCH>> \o concat(sgs) \o <<PATCH_SUFFIX>>)

\* a short text with any kind of envelope
IsEnvelopeText(t) ==
    \E pad \in {<<>>, <<NL, " ">>},
       first \in {<<>>, <<BEGIN_PATCH>>, <<BEGIN_PATCH \o <<"!">>>>,
                  << <<"*", "*", "*", " ", "B", "e", "g", "i", "n">> >>},
       last \in {<<>>, <<PATCH_SUFFIX>>, <<PATCH_SUFFIX \o <<"!">>>>},
       b \in {<<>>} \cup Segments :
        t = pad \o join(first \o b \o last) \o pad

-----------------------------------------------------------------------------
(* The state machine of text_to_patch and patch_to_commit *)

NoFrame == [path |-> <<>>, moveTo |-> <<>>, fileLines |-> <<>>, index |-> 0, chunks |-> <<>>]

\* no ConversationHistoryManager: the patch engine does not use one
NoHistory == currentSessionId = "null" /\ sessions = <<>> /\ uuids = 0 /\ tasks = <<>>

\* no file system: the function is called on its own, not by process_patch
NoIO == files = <<>> /\ calls = <<>> /\ needed = <<>> /\ applied = 0 /\ step = 0

Init ==
    /\ NoHistory
    /\ detail = <<>>
    /\ pc = "start"
    /\ IsFullText(text) \/ IsEnvelopeText(text)
    /\ orig = Originals
    /\ lines = <<>>
    /\ index = 0
    /\ patch = <<>>
    /\ fuzz = 0
    /\ upd = NoFrame
    /\ iters = 0
    /\ err = "none"
    /\ commit = <<>>
    /\ args = <<>>
    /\ ret = <<>>
    /\ NoIO

Fail(e) == pc' = "failed" /\ err' = e

\* text_to_patch up to the call of parser.parse()
TextToPatch ==
    /\ pc = "start"
    /\ LET ls == split(trim(text))
       IN  /\ lines' = ls
           /\ IF envelope(ls) # "none"
              THEN Fail(envelope(ls)) /\ index' = index
              ELSE pc' = "parse" /\ index' = 1 /\ err' = err
    /\ UNCHANGED <<text, orig, patch, fuzz, upd, iters, commit, args, ret, io, detail, hist>>

\* the three headers parse() tries on the current line, in its order
TryUpdate == read_str(lines, index, UPDATE_FILE_PREFIX)
TryDelete == read_str(lines, TryUpdate.index, DELETE_FILE_PREFIX)
TryAdd == read_str(lines, TryDelete.index, ADD_FILE_PREFIX)

InParse == pc = "parse" /\ ~is_done(lines, index, {PATCH_SUFFIX})

\* parse(): an Update header, up to the call of parse_update_file
ParseUpdate ==
    /\ InParse
    /\ TryUpdate.text # <<>>
    /\ LET path   == TryUpdate.text
           moveTo == read_str(lines, TryUpdate.index, MOVE_FILE_TO_PREFIX)
       IN  IF isDuplicate(patch, path)
           THEN Fail("DuplicatePath") /\ index' = TryUpdate.index /\ UNCHANGED <<upd, iters>>
           ELSE IF moveTo.threw
           THEN Fail("IndexPastEnd") /\ index' = TryUpdate.index /\ UNCHANGED <<upd, iters>>
           ELSE IF targetMissing(orig, path)
           THEN Fail("MissingFile") /\ index' = moveTo.index /\ UNCHANGED <<upd, iters>>
           ELSE /\ pc' = "update"
                /\ index' = moveTo.index
                /\ upd' = [path |-> path, moveTo |-> moveTo.text,
                           fileLines |-> split(orig[path]), index |-> 0, chunks |-> <<>>]
                /\ iters' = 0
                /\ err' = err
    /\ UNCHANGED <<text, orig, lines, patch, fuzz, commit, args, ret, io, detail, hist>>

\* parse_update_file: one pass of its while loop
UpdateHunk ==
    /\ pc = "update"
    /\ ~is_done(lines, index, UpdateBoundaries)
    /\ iters < MaxIters
    /\ iters' = iters + 1
    /\ LET defStr  == read_str(lines, index, <<"@", "@", " ">>)
           section == defStr.text = <<>> /\ HasLine(lines, defStr.index)
                        /\ lines[defStr.index + 1] = <<"@", "@">>
           idx     == IF section THEN defStr.index + 1 ELSE defStr.index
           peek    == peek_next_section(lines, idx)
           found   == find_context(upd.fileLines, peek.old, upd.index, peek.eof)
       IN  IF ~(defStr.text # <<>> \/ section \/ upd.index = 0)
           THEN Fail("InvalidLine") /\ index' = idx /\ UNCHANGED <<upd, fuzz, detail>>
           ELSE IF peek.threw
           THEN Fail("InvalidLine") /\ index' = idx /\ UNCHANGED <<upd, fuzz, detail>>
           ELSE IF found[1] = -1
           THEN /\ Fail(IF peek.eof THEN "InvalidEOFContext" ELSE "InvalidContext")
                /\ detail' = [index |-> upd.index, ctxText |-> join(peek.old)]
                /\ index' = idx /\ UNCHANGED <<upd, fuzz>>
           ELSE /\ fuzz' = fuzz + found[2]
                /\ upd' = [upd EXCEPT
                             !.chunks = @ \o shiftChunks(peek.chunks, found[1]),
                             !.index = found[1] + Len(peek.old)]
                /\ index' = peek.index
                /\ UNCHANGED <<pc, err, detail>>
    /\ UNCHANGED <<text, orig, lines, patch, commit, args, ret, io, hist>>

\* parse_update_file returns and parse() records the action
UpdateReturn ==
    /\ pc = "update"
    /\ is_done(lines, index, UpdateBoundaries)
    /\ patch' = Append(patch,
                  PatchAction(upd.path, "update", Undefined, upd.chunks,
                              IF upd.moveTo # <<>> THEN upd.moveTo ELSE Undefined))
    /\ pc' = "parse"
    /\ upd' = NoFrame
    /\ UNCHANGED <<text, orig, lines, index, fuzz, iters, err, commit, args, ret, io, detail, hist>>

\* parse(): a Delete header
ParseDelete ==
    /\ InParse
    /\ TryUpdate.text = <<>>
    /\ ~TryDelete.threw /\ TryDelete.text # <<>>
    /\ index' = TryDelete.index
    /\ LET path == TryDelete.text
       IN  IF isDuplicate(patch, path)
           THEN Fail("DuplicatePath") /\ patch' = patch
           ELSE IF targetMissing(orig, path)
           THEN Fail("MissingFile") /\ patch' = patch
           ELSE /\ patch' = Append(patch, PatchAction(path, "delete", Undefined, <<>>, Undefined))
                /\ UNCHANGED <<pc, err>>
    /\ UNCHANGED <<text, orig, lines, fuzz, upd, iters, commit, args, ret, io, detail, hist>>

\* parse(): an Add header and parse_add_file
ParseAdd ==
    /\ InParse
    /\ TryUpdate.text = <<>>
    /\ ~TryDelete.threw /\ TryDelete.text = <<>>
    /\ ~TryAdd.threw /\ TryAdd.text # <<>>
    /\ LET path  == TryAdd.text
           added == parse_add_file(lines, TryAdd.index, <<>>)
       IN  IF isDuplicate(patch, path)
           THEN Fail("DuplicatePath") /\ index' = TryAdd.index /\ patch' = patch
           ELSE IF targetExists(orig, path)
           THEN Fail("FileAlreadyExists") /\ index' = TryAdd.index /\ patch' = patch
           ELSE IF added.err # "none"
           THEN Fail(added.err) /\ index' = added.index /\ patch' = patch
           ELSE /\ patch' = Append(patch, PatchAction(path, "add", added.new_file, <<>>, Undefined))
                /\ index' = added.index
                /\ UNCHANGED <<pc, err>>
    /\ UNCHANGED <<text, orig, lines, fuzz, upd, iters, commit, args, ret, io, detail, hist>>

\* parse(): a line that is none of the three headers
ParseUnknown ==
    /\ InParse
    /\ TryUpdate.text = <<>>
    /\ \/ TryDelete.threw
       \/ TryDelete.text = <<>> /\ (TryAdd.threw \/ TryAdd.text = <<>>)
    /\ Fail(IF TryDelete.threw \/ TryAdd.threw THEN "IndexPastEnd" ELSE "UnknownLine")
    /\ index' = IF TryDelete.threw THEN TryUpdate.index ELSE TryDelete.index
    /\ UNCHANGED <<text, orig, lines, patch, fuzz, upd, iters, commit, args, ret, io, detail, hist>>

\* parse() after its loop, and the return of text_to_patch
ParseEnd ==
    /\ pc = "parse"
    /\ is_done(lines, index, {PATCH_SUFFIX})
    /\ IF ~startswith(lines, index, trim(PATCH_SUFFIX))
       THEN Fail("MissingEndPatch") /\ index' = index
       ELSE pc' = "parsed" /\ index' = index + 1 /\ err' = err
    /\ UNCHANGED <<text, orig, lines, patch, fuzz, upd, iters, commit, args, ret, io, detail, hist>>

FileChange(path, type, old_content, new_content, move_path) ==
    [path |-> path, type |-> type, old_content |-> old_content,
     new_content |-> new_content, move_path |-> move_path]

\* the loop of patch_to_commit from action k on: [err, changes]
RECURSIVE buildCommit(_, _, _, _)
buildCommit(pt, og, k, changes) ==
    IF k > Len(pt) THEN [err |-> "none", changes |-> changes]
    ELSE LET action == pt[k]
         IN  IF action.type = "delete"
             THEN buildCommit(pt, og, k + 1,
                     Append(changes, FileChange(action.path, "delete", og[action.path],
                                                Undefined, Undefined)))
             ELSE IF action.type = "add"
             THEN buildCommit(pt, og, k + 1,
                     Append(changes, FileChange(action.path, "add", Undefined,
                                                action.new_file, Undefined)))
             ELSE LET new == _get_updated_file(og[action.path], action.chunks)
                  IN  IF new.err # "none" THEN [err |-> new.err, changes |-> <<>>]
                      ELSE buildCommit(pt, og, k + 1,
                              Append(changes, FileChange(action.path, "update", og[action.path],
                                                         new.text, action.move_path)))

patch_to_commit(pt, og) == buildCommit(pt, og, 1, <<>>)

PatchToCommit ==
    /\ pc = "parsed"
    /\ LET c == patch_to_commit(patch, orig)
       IN  IF c.err # "none"
           THEN Fail(c.err) /\ commit' = commit
           ELSE pc' = "committed" /\ commit' = c.changes /\ err' = err
    /\ UNCHANGED <<text, orig, lines, index, patch, fuzz, upd, iters, args, ret, io, detail, hist>>

Next ==
    \/ TextToPatch
    \/ ParseUpdate
    \/ UpdateHunk
    \/ UpdateReturn
    \/ ParseDelete
    \/ ParseAdd
    \/ ParseUnknown
    \/ ParseEnd
    \/ PatchToCommit

Spec == Init /\ [][Next]_vars

-----------------------------------------------------------------------------
(* process_patch: identify_files_needed, load_files, the parser, the commit *)
(* builder and apply_commit, with the three accessors it is given.  The     *)
(* paths of the model are no array indices, so Object.entries lists the     *)
(* actions and the changes in the order they were inserted.                 *)

IsAddHeader(l) == StartsWith(l, ADD_FILE_PREFIX)

\* the loop of identify_files_needed from line i on (1-based): the paths of
\* the Update and Delete headers, each once, in the order of the text
RECURSIVE identifyFrom(_, _, _)
identifyFrom(ls, i, result) ==
    IF i > Len(ls) THEN result
    ELSE LET line == ls[i]
             named == IF StartsWith(line, UPDATE_FILE_PREFIX)
                      THEN <<StrSlice(line, Len(UPDATE_FILE_PREFIX))>>
                      ELSE IF StartsWith(line, DELETE_FILE_PREFIX)
                      THEN <<StrSlice(line, Len(DELETE_FILE_PREFIX))>>
                      ELSE <<>>
             isNew == named # <<>> /\ \A n \in 1..Len(result) : result[n] # named[1]
         IN  identifyFrom(ls, i + 1, IF isNew THEN result \o named ELSE result)

\* the paths of the Add headers taken for needed too
identify_files_needed_withAdded(t) ==
    LET ls == split(trim(t))
    IN  identifyFrom(ls, 1, <<>>) \o
        [n \in 1..Len(SelectSeq(ls, IsAddHeader)) |->
            StrSlice(SelectSeq(ls, IsAddHeader)[n], Len(ADD_FILE_PREFIX))]

identify_files_needed(t) == identifyFrom(split(trim(t)), 1, <<>>)

\* an accessor call: ok is FALSE when the accessor threw
Call(op, path, content, ok) == [op |-> op, path |-> path, content |-> content, ok |-> ok]

\* what a write and a remove that succeed do to the file system
written(fs, p, c) == [x \in DOMAIN fs \cup {p} |-> IF x = p THEN c ELSE fs[x]]
removed(fs, p) == [x \in DOMAIN fs \ {p} |-> fs[x]]

\* the runs of lines the patch bodies given to process_patch are made of
ProcessSegments ==
    { <<UPDATE_FILE_PREFIX \o PathP>>,
      <<DELETE_FILE_PREFIX \o PathP>>,
      <<DELETE_FILE_PREFIX \o PathQ>>,
      <<ADD_FILE_PREFIX \o PathQ>>,
      <<MOVE_FILE_TO_PREFIX \o PathR>>,
      <<MOVE_FILE_TO_PREFIX \o PathP>>,
      <<MOVE_FILE_TO_PREFIX \o PathQ>>,
      << <<" ", "a">>, <<"-", "b">> >>,
      << <<"@", "@">>, <<"-", "b">>, END_OF_FILE_PREFIX >>,
      << <<"+", "c">> >> }

IsProcessText(t) ==
    \E n \in 0..MaxSegments : \E sgs \in [1..n -> ProcessSegments] :
        t = join(<<BEGIN_PATCH>> \o concat(sgs) \o <<PATCH_SUFFIX>>)

InitProcess ==
    /\ NoHistory
    /\ detail = <<>>
    /\ pc = "process"
    /\ IsProcessText(text) \/ IsEnvelopeText(text)
    /\ files = Originals
    /\ orig = <<>>
    /\ calls = <<>> /\ needed = <<>> /\ applied = 0 /\ step = 0
    /\ lines = <<>> /\ index = 0 /\ patch = <<>> /\ fuzz = 0 /\ upd = NoFrame
    /\ iters = 0 /\ err = "none" /\ commit = <<>> /\ args = <<>> /\ ret = <<>>

\* process_patch up to the call of load_files
ProcessPatch ==
    /\ pc = "process"
    /\ IF ~StartsWith(text, PATCH_PREFIX)
       THEN Fail("NoBeginMarker") /\ needed' = needed
       ELSE LET paths == identify_files_needed(text)
            IN  /\ needed' = paths
                /\ pc' = IF paths = <<>> THEN "start" ELSE "load"
                /\ err' = err
    /\ UNCHANGED <<text, orig, lines, index, patch, fuzz, upd, iters, commit, args, ret,
                   files, calls, applied, step, detail, hist>>

\* load_files: one pass of its loop, one call of openFn, which throws when
\* the file is not there and may throw when it is
LoadFile ==
    /\ pc = "load"
    /\ LET p == Head(needed)
       IN  \E ok \in (IF p \in DOMAIN files THEN BOOLEAN ELSE {FALSE}) :
              /\ calls' = Append(calls, Call("open", p, Undefined, ok))
              /\ IF ok
                 THEN /\ orig' = written(orig, p, files[p])
                      /\ needed' = Tail(needed)
                      /\ pc' = IF Tail(needed) = <<>> THEN "start" ELSE "load"
                      /\ err' = err
                 ELSE Fail("FileNotFound") /\ UNCHANGED <<orig, needed>>
    /\ UNCHANGED <<text, lines, index, patch, fuzz, upd, iters, commit, args, ret,
                   files, applied, step, detail, hist>>

\* apply_commit has an entry left to process
InApply == pc = "committed" /\ applied < Len(commit)

\* a call of writeFn(p, c), which may throw
Write(p, c, last) ==
    \E ok \in BOOLEAN :
        /\ calls' = Append(calls, Call("write", p, c, ok))
        /\ IF ok
           THEN /\ files' = written(files, p, c)
                /\ applied' = IF last THEN applied + 1 ELSE applied
                /\ step' = IF last THEN 0 ELSE step + 1
                /\ UNCHANGED <<pc, err>>
           ELSE Fail("AccessorFailed") /\ UNCHANGED <<files, applied, step>>

\* a call of removeFn(p) after whose failure the calls made before are undone
Remove_undoes(p) ==
    \E ok \in (IF p \in DOMAIN files THEN BOOLEAN ELSE {FALSE}) :
        /\ calls' = Append(calls, Call("remove", p, Undefined, ok))
        /\ IF ok
           THEN /\ files' = removed(files, p)
                /\ applied' = applied + 1
                /\ step' = 0
                /\ UNCHANGED <<pc, err>>
           ELSE Fail("AccessorFailed") /\ files' = Originals /\ UNCHANGED <<applied, step>>

\* a call of removeFn(p), which throws when the file is not there and may
\* throw when it is
Remove(p) ==
    \E ok \in (IF p \in DOMAIN files THEN BOOLEAN ELSE {FALSE}) :
        /\ calls' = Append(calls, Call("remove", p, Undefined, ok))
        /\ IF ok
           THEN /\ files' = removed(files, p)
                /\ applied' = applied + 1
                /\ step' = 0
                /\ UNCHANGED <<pc, err>>
           ELSE Fail("AccessorFailed") /\ UNCHANGED <<files, applied, step>>

\* apply_commit: a Delete entry
ApplyDelete ==
    /\ InApply
    /\ commit[applied + 1].type = "delete"
    /\ Remove(commit[applied + 1].path)
    /\ UNCHANGED <<text, orig, lines, index, patch, fuzz, upd, iters, commit, args, ret, needed, detail, hist>>

\* apply_commit: an Add entry
ApplyAdd ==
    /\ InApply
    /\ commit[applied + 1].type = "add"
    /\ Write(commit[applied + 1].path, commit[applied + 1].new_content, TRUE)
    /\ UNCHANGED <<text, orig, lines, index, patch, fuzz, upd, iters, commit, args, ret, needed, detail, hist>>

\* apply_commit: an Update entry, one accessor call
ApplyUpdate ==
    /\ InApply
    /\ commit[applied + 1].type = "update"
    /\ LET change == commit[applied + 1]
       IN  IF change.move_path # Undefined
           THEN IF step = 0
                THEN Write(change.move_path, change.new_content, FALSE)
                ELSE Remove(change.path)
           ELSE Write(change.path, change.new_content, TRUE)
    /\ UNCHANGED <<text, orig, lines, index, patch, fuzz, upd, iters, commit, args, ret, needed, detail, hist>>

\* apply_commit returns and process_patch returns "Done!"
ProcessReturn ==
    /\ pc = "committed"
    /\ applied = Len(commit)
    /\ pc' = "done"
    /\ ret' = <<"D", "o", "n", "e", "!">>
    /\ UNCHANGED <<text, orig, lines, index, patch, fuzz, upd, iters, err, commit, args, io, detail, hist>>

NextProcess ==
    \/ ProcessPatch
    \/ LoadFile
    \/ TextToPatch
    \/ ParseUpdate
    \/ UpdateHunk
    \/ UpdateReturn
    \/ ParseDelete
    \/ ParseAdd
    \/ ParseUnknown
    \/ ParseEnd
    \/ PatchToCommit
    \/ ApplyDelete
    \/ ApplyAdd
    \/ ApplyUpdate
    \/ ProcessReturn

SpecProcess == InitProcess /\ [][NextProcess]_vars

-----------------------------------------------------------------------------
(* The Context Matcher called on its own *)

\* the lines of the files: a dash, the same with trailing and with leading
\* white space, an en dash, and a line that matches none of them
FindLines == { <<"-">>, <<"-", " ">>, <<" ", "-">>, <<"U+2013">>, <<"b">> }

\* the lines of the context blocks
ContextLines == { <<"-">>, <<"U+2013", " ">>, <<"b">> }

SeqsUpTo(S, lo, hi) == UNION {[1..k -> S] : k \in lo..hi}

\* files and context blocks that differ in the variant of a quote, a dash or
\* a space
PunctFiles ==
    { << <<"'">>, <<"a", " ">> >>,
      << <<"U+2019">>, <<"'">> >>,
      << <<"a", "U+00A0">>, <<"\"">> >>,
      << <<"U+201C">>, <<"U+2014">> >> }

PunctContexts ==
    { << <<"U+2019">> >>,
      << <<"U+2018">> >>,
      << <<"'">> >>,
      << <<"a", " ">> >>,
      << <<"a", "U+00A0">> >>,
      << <<"U+201D">> >>,
      << <<"-">> >>,
      << <<"U+2019">>, <<"a", "U+202F">> >>,
      << <<"a">> >> }

InitFind ==
    /\ NoHistory
    /\ detail = <<>>
    /\ pc = "call_find_context"
    /\ \/ \E fl \in SeqsUpTo(FindLines, 1, MaxFileLines),
             cx \in SeqsUpTo(ContextLines, 0, MaxCtxLines),
             eof \in BOOLEAN :
            \E st \in 0..Len(fl) :
               args = [fileLines |-> fl, context |-> cx, start |-> st, eof |-> eof]
       \/ \E fl \in PunctFiles, cx \in PunctContexts, eof \in BOOLEAN :
            \E st \in 0..Len(fl) :
               args = [fileLines |-> fl, context |-> cx, start |-> st, eof |-> eof]
    /\ ret = <<>>
    /\ text = <<>> /\ orig = <<>> /\ lines = <<>> /\ index = 0 /\ patch = <<>>
    /\ fuzz = 0 /\ upd = NoFrame /\ iters = 0 /\ err = "none" /\ commit = <<>>
    /\ NoIO

FindContext ==
    /\ pc = "call_find_context"
    /\ ret' = find_context(args.fileLines, args.context, args.start, args.eof)
    /\ pc' = "returned"
    /\ UNCHANGED <<text, orig, lines, index, patch, fuzz, upd, iters, err, commit, args, io, detail, hist>>

NextFind == FindContext

SpecFind == InitFind /\ [][NextFind]_vars

-----------------------------------------------------------------------------
(* The Commit Builder called on its own *)

TextChars == {"x", "y", NL}

CommitChunks(n) ==
    {Chunk(o, d, i) : o \in 0..(n + 1), d \in {<<>>, <<<<"x">>>>}, i \in {<<>>, <<<<"z">>>>}}

InitCommit ==
    /\ NoHistory
    /\ detail = <<>>
    /\ pc = "call_get_updated_file"
    /\ \E content \in SeqsUpTo(TextChars, 0, MaxTextLen) :
         \E chunks \in SeqsUpTo(CommitChunks(Len(split(content))), 0, MaxChunks) :
            args = [content |-> content, chunks |-> chunks]
    /\ ret = <<>>
    /\ text = <<>> /\ orig = <<>> /\ lines = <<>> /\ index = 0 /\ patch = <<>>
    /\ fuzz = 0 /\ upd = NoFrame /\ iters = 0 /\ err = "none" /\ commit = <<>>
    /\ NoIO

GetUpdatedFile ==
    /\ pc = "call_get_updated_file"
    /\ ret' = _get_updated_file(args.content, args.chunks)
    /\ pc' = "returned"
    /\ UNCHANGED <<text, orig, lines, index, patch, fuzz, upd, iters, err, commit, args, io, detail, hist>>

NextCommit == GetUpdatedFile

SpecCommit == InitCommit /\ [][NextCommit]_vars

-----------------------------------------------------------------------------
(* Properties of the Commit Builder (SpecCommit) *)

RECURSIVE SumLen(_, _)
SumLen(chunks, field) ==
    IF chunks = <<>> THEN 0 ELSE Len(chunks[1][field]) + SumLen(Tail(chunks), field)

\* every chunk's deleted range lies in the file and starts at or after the
\* end of the previous chunk's
ChunksInBoundsMonotonic(chunks, n) ==
    \A k \in 1..Len(chunks) :
        /\ chunks[k].orig_index + Len(chunks[k].del_lines) <= n
        /\ k > 1 => chunks[k].orig_index >=
                        chunks[k - 1].orig_index + Len(chunks[k - 1].del_lines)

\* the lines inserted at position i: the ins_lines of the chunks that start there
RECURSIVE InsertedAt(_, _)
InsertedAt(chunks, i) ==
    IF chunks = <<>> THEN <<>>
    ELSE (IF chunks[1].orig_index = i THEN chunks[1].ins_lines ELSE <<>>)
         \o InsertedAt(Tail(chunks), i)

DeletedAt(chunks, i) ==
    \E k \in 1..Len(chunks) :
        chunks[k].orig_index <= i /\ i < chunks[k].orig_index + Len(chunks[k].del_lines)

\* the reconstruction told position by position: before original line i
\* (0-based) come the lines inserted there, then the line unless deleted
RECURSIVE ExpectedFrom(_, _, _)
ExpectedFrom(origLines, chunks, i) ==
    IF i > Len(origLines) THEN <<>>
    ELSE InsertedAt(chunks, i)
         \o (IF i < Len(origLines) /\ ~DeletedAt(chunks, i) THEN <<origLines[i + 1]>> ELSE <<>>)
         \o ExpectedFrom(origLines, chunks, i + 1)

\* the number of lines of a text that join made of n lines
IsTextOfLines(t, n) == IF n = 0 THEN t = <<>> ELSE Len(split(t)) = n

\* C1: for every original text and every Update action whose chunks are in
\* bounds and monotonic, get_updated_file returns the original lines with,
\* for each chunk, its deleted range omitted and its ins_lines inserted at
\* orig_index, every other line once and in order; the result has
\* |orig| - sum |del_lines| + sum |ins_lines| lines.
C1_Reconstruction ==
    (pc = "returned" /\ "content" \in DOMAIN args) =>
        LET origLines == split(args.content)
            chunks    == args.chunks
        IN  ChunksInBoundsMonotonic(chunks, Len(origLines)) =>
              /\ ret.err = "none"
              /\ ret.text = join(ExpectedFrom(origLines, chunks, 0))
              /\ IsTextOfLines(ret.text,
                    Len(origLines) - SumLen(chunks, "del_lines") + SumLen(chunks, "ins_lines"))

\* two chunks, the first deleting and the second inserting, were applied
C1_Witness ==
    /\ pc = "returned" /\ "content" \in DOMAIN args
    /\ Len(args.chunks) = 2
    /\ ChunksInBoundsMonotonic(args.chunks, Len(split(args.content)))
    /\ Len(args.chunks[1].del_lines) = 1
    /\ Len(args.chunks[2].ins_lines) = 1
    /\ args.chunks[2].orig_index > args.chunks[1].orig_index
    /\ ret.err = "none"

-----------------------------------------------------------------------------
(* Properties of the Context Matcher (SpecFind) *)

\* the window of n lines at i lies in the file and equals the context line
\* by line, both stripped as the tier says and canonicalized
WindowEq(tier, fileLines, context, i) ==
    /\ i >= 0
    /\ i + Len(context) <= Len(fileLines)
    /\ \A k \in 1..Len(context) :
          canon(stripLine(tier, fileLines[i + k])) = canon(stripLine(tier, context[k]))

MatchesFrom(tier, fileLines, context, start) ==
    {i \in start..(Len(fileLines) - 1) : WindowEq(tier, fileLines, context, i)}

MinOf(S) == CHOOSE x \in S : \A y \in S : x <= y

\* the tiers in their order of preference: <<index, fuzz>>, or <<-1, 0>>
TierResult(fileLines, context, start) ==
    LET exact == MatchesFrom("exact", fileLines, context, start)
        tail  == MatchesFrom("trimEnd", fileLines, context, start)
        both  == MatchesFrom("trim", fileLines, context, start)
    IN  IF exact # {} THEN <<MinOf(exact), 0>>
        ELSE IF tail # {} THEN <<MinOf(tail), 1>>
        ELSE IF both # {} THEN <<MinOf(both), 100>>
        ELSE <<-1, 0>>

FindReturned == pc = "returned" /\ "fileLines" \in DOMAIN args

\* C2: for a search without end-of-file anchor and a non-empty context,
\* find_context returns the smallest exact match at or after start with
\* fuzz 0 if there is one anywhere, else the smallest match after stripping
\* trailing white space with fuzz 1, else the smallest match after stripping
\* leading and trailing white space with fuzz 100, else -1.
C2_TierOrder ==
    (FindReturned /\ ~args.eof /\ args.context # <<>>) =>
        LET want == TierResult(args.fileLines, args.context, args.start)
        IN  IF want[1] = -1 THEN ret[1] = -1 ELSE ret = want

\* a later exact match was preferred over an earlier white-space-only match
C2_Witness ==
    /\ FindReturned /\ ~args.eof /\ args.context # <<>>
    /\ ret[2] = 0
    /\ \E i \in args.start..(ret[1] - 1) :
          WindowEq("trimEnd", args.fileLines, args.context, i)

\* the context block is, literally, the run of file lines at j
RunAt(fileLines, context, j) ==
    /\ j + Len(context) <= Len(fileLines)
    /\ \A k \in 1..Len(context) : fileLines[j + k] = context[k]

\* C3, as stated: whenever the context block is a contiguous run of the
\* file's lines at some index, the Context Matcher returns that index with
\* fuzz 0 (read in its favour: a non-empty context, no end-of-file anchor,
\* a run at or after start).
C3_AsStated ==
    (FindReturned /\ ~args.eof /\ args.context # <<>>) =>
        \A j \in args.start..Len(args.fileLines) :
            RunAt(args.fileLines, args.context, j) => ret = <<j, 0>>

\* C3, amended: for a hunk without end-of-file anchor whose context block is
\* a contiguous run of the file's lines at an index j at or after start, the
\* Context Matcher returns fuzz 0 and the smallest index at or after start
\* whose window equals the context after canonicalization (j itself when no
\* earlier window does).
C3_FirstRun ==
    (FindReturned /\ ~args.eof) =>
        \A j \in args.start..Len(args.fileLines) :
            RunAt(args.fileLines, args.context, j) =>
                /\ ret[2] = 0
                /\ args.start <= ret[1] /\ ret[1] <= j
                /\ WindowEq("exact", args.fileLines, args.context, ret[1])
                /\ \A i \in args.start..(ret[1] - 1) :
                      ~WindowEq("exact", args.fileLines, args.context, i)

\* the context is a run of the file at j, and an earlier window that differs
\* in its punctuation only was returned
C3_Witness ==
    /\ FindReturned /\ ~args.eof /\ args.context # <<>>
    /\ \E j \in args.start..Len(args.fileLines) :
          /\ RunAt(args.fileLines, args.context, j)
          /\ ret[1] < j
          /\ ~RunAt(args.fileLines, args.context, ret[1])

TailIndex == Len(args.fileLines) - Len(args.context)

TailMatches(tier) == WindowEq(tier, args.fileLines, args.context, TailIndex)

\* C4: under an end-of-file anchor the window at the file's tail is tried
\* first: a context that is the file's tail is found there without penalty;
\* a context that matches only earlier (at or after start) is found there,
\* with the tier's fuzz plus 10000.
C4_EofAnchor ==
    (FindReturned /\ args.eof /\ args.context # <<>>) =>
        /\ TailMatches("exact") => ret = <<TailIndex, 0>>
        /\ (TailMatches("trimEnd") \/ TailMatches("trim")) =>
              ret[1] = TailIndex /\ ret[2] < 10000
        /\ (~TailMatches("exact") /\ ~TailMatches("trimEnd") /\ ~TailMatches("trim")) =>
              LET want == TierResult(args.fileLines, args.context, args.start)
              IN  IF want[1] = -1 THEN ret[1] = -1
                  ELSE ret = <<want[1], want[2] + 10000>>

\* a context that is not the tail was found earlier in the file, penalized
C4_Witness ==
    /\ FindReturned /\ args.eof /\ args.context # <<>>
    /\ ret[1] >= args.start /\ ret[1] < TailIndex
    /\ ret[2] >= 10000

-----------------------------------------------------------------------------
(* Properties of the Directive Parser (Spec) *)

ChunksOrdered(chunks) ==
    \A k \in 2..Len(chunks) :
        chunks[k].orig_index >= chunks[k - 1].orig_index + Len(chunks[k - 1].del_lines)

\* C5: in every Patch text_to_patch returns, the chunks of each Update
\* action are ordered by orig_index and none starts before the lines the
\* earlier chunks consumed, also when a hunk closed with *** EOF follows
\* earlier hunks of the file.
C5_ChunkOrder ==
    pc = "parsed" => \A i \in 1..Len(patch) : ChunksOrdered(patch[i].chunks)

\* C6: every pass of the loop of parse_update_file advances the parser's
\* line cursor or raises an error.
C6_LoopAdvances ==
    [][UpdateHunk => (index' > index \/ err' # "none")]_vars

HunkDeleteB == << <<" ", "a">>, <<"-", "b">> >>

RenameText ==
    join(<<BEGIN_PATCH, UPDATE_FILE_PREFIX \o PathP, MOVE_TO_OF_GRAMMAR \o PathR>>
         \o HunkDeleteB \o <<PATCH_SUFFIX>>)

\* C7: an Update header for a known file immediately followed by the
\* move-to header of the grammar, *** Move to: r, and a hunk that applies:
\* text_to_patch succeeds, the Update action has move_path r, and
\* patch_to_commit carries it into the FileChange.
C7_Rename ==
    (text = RenameText /\ pc \in {"parsed", "committed", "failed"}) =>
        /\ pc # "failed"
        /\ Len(patch) = 1 /\ patch[1].move_path = PathR
        /\ pc = "committed" => commit[1].move_path = PathR

\* the existence preconditions hold of every action of the patch
PatchTargetsOk ==
    \A i \in 1..Len(patch) :
        IF patch[i].type = "add" THEN patch[i].path \notin DOMAIN orig
        ELSE patch[i].path \in DOMAIN orig

Rejected(e) == pc' = "failed" /\ err' = e /\ patch' = patch

Fresh(path) == path \notin PatchPaths(patch) /\ path \notin ObjectPrototypeNames

IsHeader(l) ==
    \E pre \in {UPDATE_FILE_PREFIX, DELETE_FILE_PREFIX, ADD_FILE_PREFIX} :
        StartsWith(l, pre) /\ Len(l) > Len(pre)

HeaderPath(l) ==
    LET pre == CHOOSE q \in {UPDATE_FILE_PREFIX, DELETE_FILE_PREFIX, ADD_FILE_PREFIX} :
                   StartsWith(l, q)
    IN  StrSlice(l, Len(pre))

\* the paths the headers of the patch name, in the order of the text
HeaderPaths(ls) == [i \in 1..Len(SelectSeq(ls, IsHeader)) |-> HeaderPath(SelectSeq(ls, IsHeader)[i])]

\* C9: a directive that names the path of an earlier directive of the patch
\* fails with the duplicate-path error; a returned Patch holds exactly one
\* action for each path a header names.
C9_DuplicatePath ==
    /\ [](pc = "parsed" =>
            /\ Len(patch) = Len(HeaderPaths(lines))
            /\ \A i \in 1..Len(patch) : patch[i].path = HeaderPaths(lines)[i]
            /\ \A i, j \in 1..Len(patch) : patch[i].path = patch[j].path => i = j)
    /\ [][/\ (ParseUpdate /\ TryUpdate.text \in PatchPaths(patch)) => Rejected("DuplicatePath")
          /\ (ParseDelete /\ TryDelete.text \in PatchPaths(patch)) => Rejected("DuplicatePath")
          /\ (ParseAdd /\ TryAdd.text \in PatchPaths(patch)) => Rejected("DuplicatePath")]_vars

\* the second directive of a path failed as a duplicate
C9_Witness ==
    /\ pc = "failed" /\ err = "DuplicatePath"
    /\ Len(patch) >= 1

\* C10: text_to_patch fails at once, before any directive is parsed, unless
\* the trimmed input has at least two lines, its first line equals the
\* begin-patch marker and its last line equals the end-patch marker.
C10_Envelope ==
    pc # "start" =>
        LET ls == split(trim(text))
            ok == /\ Len(ls) >= 2
                  /\ ls[1] = BEGIN_PATCH
                  /\ ls[Len(ls)] = PATCH_SUFFIX
        IN  ~ok => /\ pc = "failed"
                   /\ err \in {"TooFewLines", "BadPrefix", "BadSuffix"}
                   /\ index = 0 /\ patch = <<>>

-----------------------------------------------------------------------------
(* Properties of the Add File directive (Spec) *)

IsAddBoundary(l) == \E p \in AddBoundaries : StartsWith(l, trim(p))

\* the lines from index i (0-based) up to the next directive boundary
AddBody(ls, i) ==
    LET stop == MinOf({e \in i..Len(ls) : e = Len(ls) \/ IsAddBoundary(ls[e + 1])})
    IN  SubSeq(ls, i + 1, stop)

\* the lines without their first character
Unmarked(body) == [k \in 1..Len(body) |-> Tail(body[k])]

AllMarked(body) == \A k \in 1..Len(body) : body[k] # <<>> /\ body[k][1] = "+"

\* C11: of an Add header whose path is not in the originals, every line up
\* to the next directive boundary must begin with +, or the parse fails; the
\* action recorded holds those lines without the +, joined by newlines, and
\* the committed FileChange is an Add with that new_content and no
\* old_content.
C11_AddFile ==
    /\ [][(ParseAdd /\ TryAdd.text \notin DOMAIN orig /\ Fresh(TryAdd.text)) =>
            LET body == AddBody(lines, TryAdd.index)
            IN  IF AllMarked(body)
                THEN /\ pc' = pc /\ err' = "none"
                     /\ patch' = Append(patch,
                           PatchAction(TryAdd.text, "add", join(Unmarked(body)), <<>>, Undefined))
                     /\ index' = TryAdd.index + Len(body)
                ELSE Rejected("InvalidAddFileLine")]_vars
    /\ [](pc = "committed" =>
            \A k \in 1..Len(patch) : patch[k].type = "add" =>
                \E j \in 1..Len(commit) :
                    commit[j] = FileChange(patch[k].path, "add", Undefined,
                                           patch[k].new_file, Undefined))

\* a file of two lines was added and committed
C11_Witness ==
    /\ pc = "committed"
    /\ \E j \in 1..Len(commit) :
          /\ commit[j].type = "add"
          /\ commit[j].new_content = <<"c", NL, "c">>
          /\ commit[j].old_content = Undefined

-----------------------------------------------------------------------------
(* One Update action from text to Commit: text_to_patch and patch_to_commit  *)
(* on the patches that update the file p by a sequence of hunks              *)

\* the contents of p, as lines
UpdateFiles ==
    { << <<"a">>, <<"b">>, <<"a">> >>,
      << <<"a">>, <<"b">> >>,
      << <<"U+2013">>, <<"-">> >> }

\* the hunks, as their lines with the markers, the last two closed by *** EOF
UpdateHunks ==
    { << <<" ", "a">>, <<"-", "b">> >>,
      << <<" ", "a">>, <<"-", "b">>, <<" ", "a">> >>,
      << <<"-", "a">>, <<"+", "c">> >>,
      << <<" ", "b">>, <<"+", "c">>, <<" ", "a">> >>,
      << <<"+", "c">> >>,
      << <<"-", "-">> >>,
      << <<"-", "b">>, END_OF_FILE_PREFIX >>,
      << <<"-", "c">>, END_OF_FILE_PREFIX >> }

\* the lines of the hunks hs from the k-th on, every hunk but the first
\* after a line @@
RECURSIVE hunkLines(_, _)
hunkLines(hs, k) ==
    IF k > Len(hs) THEN <<>>
    ELSE (IF k > 1 THEN << <<"@", "@">> >> ELSE <<>>) \o hs[k] \o hunkLines(hs, k + 1)

UpdateText(hs) ==
    join(<<BEGIN_PATCH, UPDATE_FILE_PREFIX \o PathP>> \o hunkLines(hs, 1) \o <<PATCH_SUFFIX>>)

InitUpdate ==
    /\ NoHistory
    /\ detail = <<>>
    /\ pc = "start"
    /\ \E fl \in UpdateFiles : \E n \in 0..MaxSegments : \E hs \in [1..n -> UpdateHunks] :
          /\ args = [file |-> fl, hunks |-> hs]
          /\ orig = [x \in {PathP} |-> join(fl)]
          /\ text = UpdateText(hs)
    /\ lines = <<>> /\ index = 0 /\ patch = <<>> /\ fuzz = 0 /\ upd = NoFrame
    /\ iters = 0 /\ err = "none" /\ commit = <<>> /\ ret = <<>>
    /\ NoIO

NextUpdate ==
    \/ TextToPatch
    \/ ParseUpdate
    \/ UpdateHunk
    \/ UpdateReturn
    \/ ParseEnd
    \/ PatchToCommit

SpecUpdate == InitUpdate /\ [][NextUpdate]_vars

-----------------------------------------------------------------------------
(* Properties of the end-to-end Update (SpecUpdate) *)

IsOldLine(l) == l[1] \in {" ", "-"}

\* the context and deletion lines of a hunk, without their markers
OldOf(h) == Unmarked(SelectSeq(h, IsOldLine))

\* where a hunk is matched: the first window at or after pos that equals
\* its context and deletion lines after canonicalization
MatchAt(fl, old, pos) ==
    IF old = <<>> THEN pos
    ELSE IF MatchesFrom("exact", fl, old, pos) = {} THEN -1
    ELSE MinOf(MatchesFrom("exact", fl, old, pos))

\* the hunks from the k-th on each occur exactly in the file at or after the
\* end of the previous hunk's match
RECURSIVE HunksOccur(_, _, _, _)
HunksOccur(fl, hs, k, pos) ==
    IF k > Len(hs) THEN TRUE
    ELSE LET old == OldOf(hs[k])
         IN  /\ \E j \in pos..Len(fl) : RunAt(fl, old, j)
             /\ HunksOccur(fl, hs, k + 1, MatchAt(fl, old, pos) + Len(old))

\* the matched window rewritten by its hunk: a context line stays as the
\* file has it, a - line goes, a + line comes in at its place
RECURSIVE NewWindow(_, _, _)
NewWindow(h, fl, at) ==
    IF h = <<>> THEN <<>>
    ELSE IF h[1][1] = "+" THEN <<Tail(h[1])>> \o NewWindow(Tail(h), fl, at)
    ELSE IF h[1][1] = "-" THEN NewWindow(Tail(h), fl, at + 1)
    ELSE <<fl[at + 1]>> \o NewWindow(Tail(h), fl, at + 1)

\* the file from line cursor on, with the hunks from the k-th on applied
RECURSIVE ExpectedUpdate(_, _, _, _)
ExpectedUpdate(fl, hs, k, cursor) ==
    IF k > Len(hs) THEN SubSeq(fl, cursor + 1, Len(fl))
    ELSE LET old == OldOf(hs[k])
             m   == MatchAt(fl, old, cursor)
         IN  SubSeq(fl, cursor + 1, m) \o NewWindow(hs[k], fl, m)
                \o ExpectedUpdate(fl, hs, k + 1, m + Len(old))

UpdateRun == "hunks" \in DOMAIN args

\* the hunk is closed by *** EOF
ClosedByEof(h) == h[Len(h)] = END_OF_FILE_PREFIX

NoEofHunk == \A n \in 1..Len(args.hunks) : ~ClosedByEof(args.hunks[n])

\* C12: for a file of the originals and hunks without end-of-file anchor
\* whose context and deletion lines each occur exactly in the file at or
\* after the end of the previous hunk's match, text_to_patch and
\* patch_to_commit succeed and new_content is the original with, in each
\* matched window, the - lines removed and the + lines inserted at their
\* places, every other line unchanged; each pass of parse_update_file
\* shifts the hunk's local chunk offsets by the match index and moves the
\* running position to the end of the matched context.
C12_EndToEnd ==
    /\ []((UpdateRun /\ NoEofHunk /\ HunksOccur(args.file, args.hunks, 1, 0)) =>
            /\ pc # "failed"
            /\ pc = "committed" =>
                 commit = <<FileChange(PathP, "update", join(args.file),
                              join(ExpectedUpdate(args.file, args.hunks, 1, 0)), Undefined)>>)
    /\ [][(UpdateRun /\ NoEofHunk /\ UpdateHunk /\ pc' = "update") =>
            LET old   == OldOf(args.hunks[iters + 1])
                m     == MatchAt(upd.fileLines, old, upd.index)
                local == peek_next_section(lines, IF iters > 0 THEN index + 1 ELSE index).chunks
            IN  /\ upd'.index = m + Len(old)
                /\ upd'.chunks = upd.chunks \o
                      [k \in 1..Len(local) |->
                          Chunk(local[k].orig_index + m, local[k].del_lines, local[k].ins_lines)]]_vars

\* the file a, b, a with the hunk " a", "-b", " a" was committed as a, a
C12_Witness ==
    /\ UpdateRun /\ pc = "committed"
    /\ args.file = << <<"a">>, <<"b">>, <<"a">> >>
    /\ args.hunks = << << <<" ", "a">>, <<"-", "b">>, <<" ", "a">> >> >>
    /\ commit[1].new_content = <<"a", NL, "a">>

\* two hunks were applied, the second matched after the end of the first
C12_WitnessTwoHunks ==
    /\ UpdateRun /\ NoEofHunk /\ pc = "committed"
    /\ Len(args.hunks) = 2
    /\ Len(patch[1].chunks) = 2
    /\ patch[1].chunks[2].orig_index > patch[1].chunks[1].orig_index

-----------------------------------------------------------------------------
(* Properties of apply_commit and process_patch (SpecProcess) *)

IsApplyCall(c) == c.op \in {"write", "remove"}

\* the write and remove calls made so far, in order
ApplyLog == SelectSeq(calls, IsApplyCall)

\* the accessor calls of one Commit entry, as the dispatch is described
ExpectedCalls(change) ==
    IF change.type = "delete" THEN <<Call("remove", change.path, Undefined, TRUE)>>
    ELSE IF change.type = "add" THEN <<Call("write", change.path, change.new_content, TRUE)>>
    ELSE IF change.move_path = Undefined
    THEN <<Call("write", change.path, change.new_content, TRUE)>>
    ELSE <<Call("write", change.move_path, change.new_content, TRUE),
           Call("remove", change.path, Undefined, TRUE)>>

\* the calls of the first n entries of the Commit
RECURSIVE ExpectedLog(_)
ExpectedLog(n) ==
    IF n = 0 THEN <<>> ELSE ExpectedLog(n - 1) \o ExpectedCalls(commit[n])

\* the calls of the log made for the n-th entry, when all entries were done
CallsOfEntry(n) ==
    SubSeq(ApplyLog, Len(ExpectedLog(n - 1)) + 1, Len(ExpectedLog(n)))

\* C13: when apply_commit has gone through the Commit, the accessor calls
\* made are, entry by entry and in this order, remove(p) for a Delete,
\* write(p, new_content) for an Add and for an Update without move_path,
\* write(q, new_content) and then remove(p) for an Update with move_path q,
\* and no others; the old path p of a renamed Update is never written.
C13_Dispatch ==
    pc = "done" =>
        /\ ApplyLog = ExpectedLog(Len(commit))
        /\ \A n \in 1..Len(commit) :
              (commit[n].type = "update" /\ commit[n].move_path # Undefined) =>
                  \A c \in 1..Len(CallsOfEntry(n)) :
                      ~(CallsOfEntry(n)[c].op = "write"
                          /\ CallsOfEntry(n)[c].path = commit[n].path)

\* the dispatch alone
ApplyDispatch == pc = "done" => ApplyLog = ExpectedLog(Len(commit))


\* the file system after the calls of a log that succeeded, from fs on
RECURSIVE FilesAfter(_, _)
FilesAfter(fs, log) ==
    IF log = <<>> THEN fs
    ELSE LET c == log[1]
         IN  FilesAfter(IF ~c.ok THEN fs
                        ELSE IF c.op = "write" THEN written(fs, c.path, c.content)
                        ELSE removed(fs, c.path),
                        Tail(log))

AccessorFailed == pc = "failed" /\ err = "AccessorFailed"

\* the entry apply_commit was at when an accessor threw
FailedEntry == applied + 1

\* C14: when a write or remove accessor fails at entry k, the error goes to
\* the caller; the calls made are those of the entries before k, the calls
\* of entry k before the failing one, and the failing call, and no call of a
\* later entry; the file system keeps the effect of every call that
\* succeeded; nothing is undone and nothing more is done.
C14_NoRollback ==
    /\ [](AccessorFailed =>
            LET entry == ExpectedCalls(commit[FailedEntry])
                n     == Len(ApplyLog)
            IN  /\ FailedEntry <= Len(commit)
                /\ n = Len(ExpectedLog(applied)) + step + 1
                /\ SubSeq(ApplyLog, 1, n - 1) =
                      ExpectedLog(applied) \o SubSeq(entry, 1, step)
                /\ ApplyLog[n] = [entry[step + 1] EXCEPT !.ok = FALSE]
                /\ files = FilesAfter(Originals, SubSeq(ApplyLog, 1, n - 1)))
    /\ [][pc # "failed"]_vars
    /\ [][(InApply /\ pc' = "failed") =>
             /\ err' = "AccessorFailed"
             /\ files' = files
             /\ ~calls'[Len(calls')].ok]_vars

\* the write of a rename was made and stayed, its remove failed
C14_Witness ==
    /\ AccessorFailed
    /\ step = 1
    /\ ApplyLog[Len(ApplyLog)].op = "remove"
    /\ PathR \in DOMAIN files /\ PathP \in DOMAIN files


\* the paths the lines of ls name that start with the header prefix pre
PathsNamed(ls, pre) ==
    {StrSlice(ls[n], Len(pre)) : n \in {i \in 1..Len(ls) : StartsWith(ls[i], pre)}}

\* the paths the Update and Delete headers of the text name
NeededPaths ==
    PathsNamed(split(trim(text)), UPDATE_FILE_PREFIX)
        \cup PathsNamed(split(trim(text)), DELETE_FILE_PREFIX)

\* the error left process_patch before apply_commit was called
FailedBeforeApply == pc = "failed" /\ err # "AccessorFailed"

Done == <<"D", "o", "n", "e", "!">>

\* C15: every open call comes before every write and remove call; open is
\* called for paths that Update and Delete headers name only; when the
\* begin-marker test, an open, text_to_patch or patch_to_commit fails, no
\* write or remove is ever called; process_patch returns "Done!" only when
\* apply_commit has processed every entry of the Commit.
C15_TwoPhase ==
    /\ \A a, b \in 1..Len(calls) :
          (a < b /\ calls[b].op = "open") => calls[a].op = "open"
    /\ \A c \in 1..Len(calls) : calls[c].op = "open" => calls[c].path \in NeededPaths
    /\ ApplyLog # <<>> =>
          /\ needed = <<>>
          /\ \A p \in NeededPaths : \E c \in 1..Len(calls) : calls[c] = Call("open", p, Undefined, TRUE)
          /\ pc \in {"committed", "done"} \/ AccessorFailed
    /\ FailedBeforeApply => ApplyLog = <<>> /\ files = Originals
    /\ (pc = "done" \/ ret = Done) =>
          /\ pc = "done" /\ ret = Done /\ err = "none"
          /\ applied = Len(commit)
          /\ Len(ApplyLog) = Len(ExpectedLog(Len(commit)))
          /\ \A c \in 1..Len(calls) : calls[c].ok

\* a file was opened, then the Commit applied by a write and a remove, and
\* process_patch returned
C15_Witness ==
    /\ pc = "done"
    /\ Len(calls) >= 3
    /\ calls[1].op = "open"
    /\ \E c \in 1..Len(calls) : calls[c].op = "write"
    /\ \E c \in 1..Len(calls) : calls[c].op = "remove"

\* an open failed and nothing was written or removed
C15_WitnessOpenFailed ==
    /\ pc = "failed" /\ err = "FileNotFound"
    /\ Len(calls) >= 2 /\ ApplyLog = <<>>

-----------------------------------------------------------------------------
(* The Commit Builder called on a Patch of its own: patch_to_commit on an    *)
(* Update action of any chunks, alone or after an Add action                 *)

AddedQ == PatchAction(PathQ, "add", <<"c">>, <<>>, Undefined)

InitBuild ==
    /\ NoHistory
    /\ detail = <<>>
    /\ pc = "parsed"
    /\ \E content \in SeqsUpTo(TextChars, 0, MaxTextLen) :
         \E chunks \in SeqsUpTo(CommitChunks(Len(split(content))), 0, MaxChunks) :
           \E before \in {<<>>, <<AddedQ>>} :
              /\ orig = [x \in {PathP} |-> content]
              /\ patch = before \o <<PatchAction(PathP, "update", Undefined, chunks, Undefined)>>
    /\ text = <<>> /\ lines = <<>> /\ index = 0 /\ fuzz = 0 /\ upd = NoFrame
    /\ iters = 0 /\ err = "none" /\ commit = <<>> /\ args = <<>> /\ ret = <<>>
    /\ NoIO

NextBuild == PatchToCommit

SpecBuild == InitBuild /\ [][NextBuild]_vars

-----------------------------------------------------------------------------
(* Properties of patch_to_commit (SpecBuild) *)

\* the Update action of the patch, which is its last
BuiltAction == patch[Len(patch)]

\* a chunk starts past the last line, or before the cursor the chunk before
\* it left: its orig_index plus the number of its del_lines
ChunkOutOfPlace(chunks, n) ==
    \E c \in 1..Len(chunks) :
        \/ chunks[c].orig_index > n
        \/ c > 1 /\ chunks[c].orig_index <
                      chunks[c - 1].orig_index + Len(chunks[c - 1].del_lines)

BuildRun == pc \in {"committed", "failed"} /\ text = <<>> /\ patch # <<>>

\* C16: patch_to_commit fails with a patch error and produces no Commit
\* when a chunk of an Update action has an orig_index greater than the
\* original's line count or less than the cursor the earlier chunks
\* consumed, and succeeds for every other Update action.
C16_BuilderFailure ==
    BuildRun =>
        IF ChunkOutOfPlace(BuiltAction.chunks, Len(split(orig[PathP])))
        THEN /\ pc = "failed"
             /\ err \in {"ChunkIndexTooLarge", "ChunkOverlap"}
             /\ commit = <<>>
        ELSE /\ pc = "committed"
             /\ err = "none"
             /\ Len(commit) = Len(patch)
             /\ commit[Len(commit)].type = "update"

\* the second chunk starts inside the lines the first deleted: no Commit,
\* although the Add action before the Update was gone through
C16_Witness ==
    /\ BuildRun /\ pc = "failed" /\ err = "ChunkOverlap"
    /\ Len(patch) = 2
    /\ Len(BuiltAction.chunks) = 2
    /\ BuiltAction.chunks[2].orig_index <= Len(split(orig[PathP]))


\* some tier finds the window at i equal to the context
AnyTierAt(fl, old, i) ==
    \E tier \in {"exact", "trimEnd", "trim"} : WindowEq(tier, fl, old, i)

\* the context of a hunk is located: at or after the running position, or,
\* for a hunk closed by *** EOF, at the file's tail
Located(fl, old, pos, eof) ==
    \/ old = <<>>
    \/ \E i \in pos..(Len(fl) - 1) : AnyTierAt(fl, old, i)
    \/ eof /\ AnyTierAt(fl, old, Len(fl) - Len(old))

\* C17: when no tier locates the context of a hunk, text_to_patch fails: no
\* Patch is returned and nothing more is parsed; the error is Invalid EOF
\* Context exactly when the hunk was closed by *** EOF and Invalid Context
\* otherwise, and carries the hunk's context lines; a search under the
\* end-of-file anchor that failed is not taken for a match.
C17_ContextNotFound ==
    /\ [][(UpdateRun /\ UpdateHunk) =>
            LET h   == args.hunks[iters + 1]
                old == OldOf(h)
            IN  IF Located(upd.fileLines, old, upd.index, ClosedByEof(h))
                THEN pc' = "update" /\ err' = "none"
                ELSE /\ pc' = "failed"
                     /\ err' = IF ClosedByEof(h) THEN "InvalidEOFContext" ELSE "InvalidContext"
                     /\ detail' = [index |-> upd.index, ctxText |-> join(old)]
                     /\ patch' = patch /\ upd' = upd]_vars
    /\ [](err \in {"InvalidContext", "InvalidEOFContext"} =>
            pc = "failed" /\ patch = <<>> /\ commit = <<>>)
    /\ [][pc = "failed" => FALSE]_vars

\* a hunk closed by *** EOF whose context is nowhere in the file: the scan
\* from the running position failed too, and the parse ended
C17_Witness ==
    /\ UpdateRun /\ pc = "failed" /\ err = "InvalidEOFContext"
    /\ detail.ctxText = <<"c">>
    /\ iters = 2

-----------------------------------------------------------------------------
(* Properties of the Canonicalizer in the Context Matcher (SpecFind) *)

\* the classes of characters that stand for one another
PunctClasses ==
    { {"-", "U+2010", "U+2011", "U+2012", "U+2013", "U+2014", "U+2212"},
      {"\"", "U+201C", "U+201D", "U+201E", "U+00AB", "U+00BB"},
      {"'", "U+2018", "U+2019", "U+201B"},
      {" ", "U+00A0", "U+202F"} }

SameClass(c, d) == c = d \/ \E class \in PunctClasses : c \in class /\ d \in class

\* the strings differ in members of one class at a position only
PunctEquivalent(a, b) ==
    Len(a) = Len(b) /\ \A n \in 1..Len(a) : SameClass(a[n], b[n])

\* the window at i differs from the context in that way only
PunctWindow(fileLines, context, i) ==
    /\ i + Len(context) <= Len(fileLines)
    /\ \A n \in 1..Len(context) : PunctEquivalent(fileLines[i + n], context[n])

\* C18, as stated: a context that differs from the window at an index i at
\* or after start in the variants of its dashes, quotes and spaces only is
\* found at that window, with fuzz 0 or 1 (read in its favour: a non-empty
\* context, no end-of-file anchor, a window that is not the context itself).
C18_AsStated ==
    (FindReturned /\ ~args.eof /\ args.context # <<>>) =>
        \A i \in args.start..Len(args.fileLines) :
            (PunctWindow(args.fileLines, args.context, i)
                /\ ~RunAt(args.fileLines, args.context, i)) =>
                    ret[1] = i /\ ret[2] \in {0, 1}

\* C18, amended: a context that differs from the window at an index i at or
\* after start in the variants of its dashes, quotes and spaces only is
\* always found.  Without end-of-file anchor the fuzz is 0 and the index is
\* the smallest at or after start whose window equals the context after
\* canonicalization, i itself when no earlier window does; under the anchor
\* the fuzz is 0 when the window is the tail of the file.
C18_PunctEquivalent ==
    (FindReturned /\ args.context # <<>>) =>
        \A i \in args.start..Len(args.fileLines) :
            PunctWindow(args.fileLines, args.context, i) =>
                /\ ret[1] # -1
                /\ ~args.eof =>
                      /\ ret[2] = 0
                      /\ args.start <= ret[1] /\ ret[1] <= i
                      /\ WindowEq("exact", args.fileLines, args.context, ret[1])
                      /\ \A e \in args.start..(ret[1] - 1) :
                            ~WindowEq("exact", args.fileLines, args.context, e)
                /\ (args.eof /\ i = TailIndex) => ret = <<i, 0>>

\* a context with a curly apostrophe and a narrow no-break space was found
\* with fuzz 0 in a file that has the straight apostrophe and the space
C18_Witness ==
    /\ FindReturned /\ ~args.eof
    /\ args.context = << <<"U+2019">>, <<"a", "U+202F">> >>
    /\ args.fileLines = << <<"'">>, <<"a", " ">> >>
    /\ ret = <<0, 0>>

-----------------------------------------------------------------------------
(* The Canonicalizer called on its own *)

MaxCanonLen == 2

\* the code points of the table, and ordinary characters: a letter, and a
\* letter, an accent and the letter they compose to
CanonChars ==
    UNION PunctClasses \cup {"a", "e", "U+0301", "U+00E9"}

\* s with the character at one position replaced by a member of its class
Variants(s) ==
    UNION {{[s EXCEPT ![n] = d] : d \in {c \in CanonChars : SameClass(c, s[n])}} :
              n \in 1..Len(s)}

InitCanon ==
    /\ NoHistory
    /\ detail = <<>>
    /\ pc = "call_canon"
    /\ \E s \in SeqsUpTo(CanonChars, 0, MaxCanonLen) :
         \E t \in Variants(s) \cup {s} : args = [s |-> s, t |-> t]
    /\ ret = <<>>
    /\ text = <<>> /\ orig = <<>> /\ lines = <<>> /\ index = 0 /\ patch = <<>>
    /\ fuzz = 0 /\ upd = NoFrame /\ iters = 0 /\ err = "none" /\ commit = <<>>
    /\ NoIO

\* canon on s, on its own result, and on t
Canon ==
    /\ pc = "call_canon"
    /\ ret' = [s |-> canon(args.s), twice |-> canon(canon(args.s)), t |-> canon(args.t)]
    /\ pc' = "returned"
    /\ UNCHANGED <<text, orig, lines, index, patch, fuzz, upd, iters, err, commit, args, io, detail, hist>>

NextCanon == Canon

SpecCanon == InitCanon /\ [][NextCanon]_vars

-----------------------------------------------------------------------------
(* Properties of the Canonicalizer (SpecCanon) *)

CanonReturned == pc = "returned" /\ "t" \in DOMAIN args

\* C19: canon(canon(s)) = canon(s) for every string over the code points of
\* the table and ordinary characters, and two strings that differ in
\* members of one class of dashes, quotes or spaces only have the same
\* canon (here: that differ so at one position; strings that differ at
\* more are linked by a chain of these).
C19_CanonIdempotent ==
    CanonReturned =>
        /\ ret.twice = ret.s
        /\ PunctEquivalent(args.s, args.t) => ret.t = ret.s

\* an accent was composed and a curly quote replaced, and the variant with
\* another quote has the same canon
C19_Witness ==
    /\ CanonReturned
    /\ args.s # args.t
    /\ ret.s # args.s /\ ret.t # args.t
    /\ ret.s = ret.t

-----------------------------------------------------------------------------
(* The ConversationHistoryManager (conversation-history.ts)

   A session is a directory <historyDir>/<sessionId> with the files
   messages.jsonl and metadata.json.  Every method is awaited before the
   next one is called, so that a method is one step.  JSON.stringify of a
   message is one line without a line break, kept as one symbol. *)

\* the sessions one manager creates, and the messages of one saveSession
MaxSessions == 1
MaxMessages == 1

\* JSON.stringify(message) of the messages of the callers
MessageJson == {"m1", "m2"}

\* the arrays a caller saves: every message has a uuid of its own, so that
\* no message is in an array twice
MessageLists ==
    {ms \in SeqsUpTo(MessageJson, 0, MaxMessages) :
        \A i, j \in 1..Len(ms) : ms[i] = ms[j] => i = j}

\* the values of uuidv4, in the order they are given out
Uuid == <<"s1", "s2", "s3", "s4">>

\* a session id this manager did not generate (a session of an earlier run,
\* or one that is imported by saveSession)
ImportedId == "imported"

\* the session ids a caller can hold
CallIds == {Uuid[n] : n \in 1..uuids} \cup {ImportedId}

NotBlank(line) == trim(line) # <<>>

\* JSON.parse(line) returns: the line is one JSON value between white space
Parses(line) == Len(trim(line)) = 1 /\ trim(line)[1] \in MessageJson

\* JSON.parse(line) of a line that parses
JsonParse(line) == trim(line)[1]

\* the loop of loadSession: the lines that parse, parsed
parseLines(content) ==
    LET ls == SelectSeq(SelectSeq(split(content), NotBlank), Parses)
    IN  [k \in 1..Len(ls) |-> JsonParse(ls[k])]

\* messages.map(msg => JSON.stringify(msg)).join('\n')
jsonlContent(messages) == join([k \in 1..Len(messages) |-> <<messages[k]>>])

\* content.trim().split('\n').filter(line => line.trim()).length
countLines(content) == Len(SelectSeq(split(trim(content)), NotBlank))

\* updateSessionMetadata: metadata.json is read, merged and written; when
\* it cannot be read the error is logged and nothing is written
updateSessionMetadata(dir, messageCount) ==
    IF dir.metadata = <<>> THEN dir
    ELSE [dir EXCEPT !.metadata = <<[messageCount |-> messageCount]>>]

PatchIdle ==
    /\ text = <<>> /\ orig = <<>> /\ lines = <<>> /\ index = 0 /\ patch = <<>>
    /\ fuzz = 0 /\ upd = NoFrame /\ iters = 0 /\ err = "none" /\ commit = <<>>
    /\ detail = <<>>
    /\ NoIO

\* new ConversationHistoryManager(): no current session; the directory
\* may hold a session of an earlier run
InitHistory ==
    /\ pc = "history"
    /\ currentSessionId = "null"
    /\ sessions \in {<<>>,
                     [id \in {ImportedId} |->
                         [messages |-> <<>>, metadata |-> <<[messageCount |-> 0]>>]]}
    /\ uuids = 0
    /\ tasks = <<>>
    /\ args = <<>>
    /\ ret = <<>>
    /\ PatchIdle

\* the outcome of the last call: its promise is fulfilled with a value, or
\* rejected
Returned(op, value) == [op |-> op, threw |-> FALSE, value |-> value]
Threw(op) == [op |-> op, threw |-> TRUE, value |-> <<>>]

PutDir(id, dir) == [i \in DOMAIN sessions \cup {id} |-> IF i = id THEN dir ELSE sessions[i]]

CreateSession ==
    /\ pc = "history"
    /\ uuids < MaxSessions
    /\ LET sessionId == Uuid[uuids + 1]
       IN  /\ uuids' = uuids + 1
           /\ sessions' = PutDir(sessionId, [messages |-> <<>>,
                                             metadata |-> <<[messageCount |-> 0]>>])
           /\ currentSessionId' = sessionId
           /\ ret' = Returned("createSession", sessionId)
    /\ UNCHANGED <<pc, text, orig, lines, index, patch, fuzz, upd, iters, err, commit, args,
                   io, detail, tasks>>

LoadSession(sessionId) ==
    /\ pc = "history"
    /\ IF sessionId \notin DOMAIN sessions
       THEN \* readFile fails with ENOENT
            /\ ret' = Threw("loadSession")
            /\ UNCHANGED currentSessionId
       ELSE LET content == sessions[sessionId].messages
            IN  IF trim(content) = <<>>
                THEN /\ ret' = Returned("loadSession", <<>>)
                     /\ UNCHANGED currentSessionId
                ELSE /\ ret' = Returned("loadSession", parseLines(content))
                     /\ currentSessionId' = sessionId
    /\ UNCHANGED <<pc, text, orig, lines, index, patch, fuzz, upd, iters, err, commit, args,
                   io, detail, sessions, uuids, tasks>>

SaveSession(sessionId, messages) ==
    /\ pc = "history"
    /\ LET dir == IF sessionId \in DOMAIN sessions THEN sessions[sessionId]
                  ELSE [messages |-> <<>>, metadata |-> <<>>]
           saved == [dir EXCEPT !.messages = jsonlContent(messages)]
       IN  sessions' = PutDir(sessionId, updateSessionMetadata(saved, Len(messages)))
    /\ ret' = Returned("saveSession", <<>>)
    /\ UNCHANGED <<pc, text, orig, lines, index, patch, fuzz, upd, iters, err, commit, args,
                   io, detail, currentSessionId, uuids, tasks>>

AddMessage(sessionId, message) ==
    /\ pc = "history"
    /\ IF sessionId \notin DOMAIN sessions
       THEN \* appendFile fails with ENOENT: the directory is missing
            /\ ret' = Threw("addMessage")
            /\ UNCHANGED sessions
       ELSE /\ Len(sessions[sessionId].messages) <= MaxMessages
            /\ LET content == sessions[sessionId].messages \o <<message, NL>>
                   appended == [sessions[sessionId] EXCEPT !.messages = content]
               IN  sessions' = PutDir(sessionId,
                                      updateSessionMetadata(appended, countLines(content)))
            /\ ret' = Returned("addMessage", <<>>)
    /\ UNCHANGED <<pc, text, orig, lines, index, patch, fuzz, upd, iters, err, commit, args,
                   io, detail, currentSessionId, uuids, tasks>>

\* fs.rm with recursive and force: no error when the directory is missing
DeleteSession(sessionId) ==
    /\ pc = "history"
    /\ sessions' = [i \in DOMAIN sessions \ {sessionId} |-> sessions[i]]
    /\ ret' = Returned("deleteSession", <<>>)
    /\ UNCHANGED <<pc, text, orig, lines, index, patch, fuzz, upd, iters, err, commit, args,
                   io, detail, currentSessionId, uuids, tasks>>

NextHistory ==
    \/ CreateSession
    \/ \E id \in CallIds : LoadSession(id)
    \/ \E id \in CallIds : \E ms \in MessageLists : SaveSession(id, ms)
    \/ \E id \in CallIds : \E m \in MessageJson : AddMessage(id, m)
    \/ \E id \in CallIds : DeleteSession(id)

SpecHistory == InitHistory /\ [][NextHistory]_vars

-----------------------------------------------------------------------------
(* Properties of the ConversationHistoryManager (SpecHistory) *)

\* C20: a loadSession(sessionId) that returns, an empty messages file
\* included, leaves sessionId the current session; one that throws leaves
\* the current session id as it was.
C20_LoadSession ==
    [][\A id \in CallIds :
          LoadSession(id) =>
              /\ ~ret'.threw => currentSessionId' = id
              /\ ret'.threw => currentSessionId' = currentSessionId]_vars

-----------------------------------------------------------------------------
(* The Chunk Builder called on its own *)

MaxHunkLines == 4

\* hunk lines: context, deletion, insertion, unmarked and empty ones
PeekHunkLines ==
    {<<" ", "a">>, <<"-", "b">>, <<"+", "c">>, <<"a">>, <<>>, <<"-">>}

\* what follows the hunk lines: nothing, or a line the loop stops at
PeekTerminators ==
    {<<>>,
     <<END_OF_FILE_PREFIX>>,
     <<END_OF_FILE_PREFIX \o <<" ">> >>,
     << <<"@", "@">> >>,
     << <<"*", "*", "*">>, END_OF_FILE_PREFIX >>,
     << <<"*", "*", "*", "x">> >>}

\* the lines before initialIndex
PeekHeads == {<<>>, << <<"-", "b">> >>}

InitPeek ==
    /\ NoHistory
    /\ detail = <<>>
    /\ pc = "call_peek"
    /\ \E head \in PeekHeads : \E hs \in SeqsUpTo(PeekHunkLines, 0, MaxHunkLines) :
         \E term \in PeekTerminators :
            /\ lines = head \o hs \o term
            /\ index = Len(head)
            /\ args = [hunk |-> hs, term |-> term]
    /\ ret = <<>>
    /\ text = <<>> /\ orig = <<>> /\ patch = <<>>
    /\ fuzz = 0 /\ upd = NoFrame /\ iters = 0 /\ err = "none" /\ commit = <<>>
    /\ NoIO

PeekNextSection ==
    /\ pc = "call_peek"
    /\ ret' = peek_next_section(lines, index)
    /\ pc' = "returned"
    /\ UNCHANGED <<text, orig, lines, index, patch, fuzz, upd, iters, err, commit, args, io, detail, hist>>

NextPeek == PeekNextSection

SpecPeek == InitPeek /\ [][NextPeek]_vars

-----------------------------------------------------------------------------
(* Properties of the Chunk Builder (SpecPeek) *)

PeekReturned == pc = "returned" /\ "hunk" \in DOMAIN args /\ ~ret.threw

IsInsLine(l) == l # <<>> /\ l[1] = "+"
IsDelLine(l) == l # <<>> /\ l[1] = "-"
IsChangeLine(l) == IsInsLine(l) \/ IsDelLine(l)
NotInsLine(l) == ~IsInsLine(l)

\* a hunk line without its marker; a line without a marker is taken whole
Body(l) == IF l # <<>> /\ l[1] \in {"+", "-", " "} THEN Tail(l) ELSE l
Bodies(ls) == [k \in 1..Len(ls) |-> Body(ls[k])]

\* the positions at which a maximal run of + and - lines starts, and the
\* position at which the run that starts at i ends
RunStarts(h) ==
    {i \in 1..Len(h) : IsChangeLine(h[i]) /\ (i = 1 \/ ~IsChangeLine(h[i - 1]))}
RunEnd(h, i) ==
    CHOOSE j \in i..Len(h) :
        /\ \A m \in i..j : IsChangeLine(h[m])
        /\ j = Len(h) \/ ~IsChangeLine(h[j + 1])

\* the chunk of the run that starts at i
RunChunk(h, i) ==
    LET run == SubSeq(h, i, RunEnd(h, i))
    IN  Chunk(Len(SelectSeq(SubSeq(h, 1, i - 1), NotInsLine)),
              Bodies(SelectSeq(run, IsDelLine)),
              Bodies(SelectSeq(run, IsInsLine)))

\* the k-th smallest member of a set of numbers
Kth(S, k) == CHOOSE i \in S : Cardinality({j \in S : j <= i}) = k

ExpectedChunks(h) ==
    [k \in 1..Cardinality(RunStarts(h)) |-> RunChunk(h, Kth(RunStarts(h), k))]

\* the line after the scanned region is *** EOF
EofFollows == args.term # <<>> /\ args.term[1] = END_OF_FILE_PREFIX

\* C21: peek_next_section returns as context block the context and deletion
\* lines of the hunk without their markers, in order; one chunk for every
\* maximal run of + and - lines, with the run's deletions and insertions
\* and with orig_index the number of context and deletion lines before the
\* run; and is_eof iff the line after the scanned lines is *** EOF, which
\* is then consumed.
C21_ChunkBuilder ==
    PeekReturned =>
        /\ ret.old = Bodies(SelectSeq(args.hunk, NotInsLine))
        /\ ret.chunks = ExpectedChunks(args.hunk)
        /\ ret.eof <=> EofFollows
        /\ ret.index = index + Len(args.hunk) + (IF EofFollows THEN 1 ELSE 0)

\* two runs around a context line, the first with a deletion and an
\* insertion, the hunk closed by *** EOF
C21_Witness ==
    /\ PeekReturned
    /\ Len(ret.chunks) = 2
    /\ ret.chunks[1].del_lines # <<>> /\ ret.chunks[1].ins_lines # <<>>
    /\ ret.chunks[2].orig_index > ret.chunks[1].orig_index + Len(ret.chunks[1].del_lines)
    /\ ret.eof
    /\ index > 0

-----------------------------------------------------------------------------
(* Properties of the Context Matcher: the empty context block (SpecFind) *)

EmptyContext == FindReturned /\ args.context = <<>>

\* C22 as stated: for a hunk without context and deletion lines find_context
\* returns (start, 0), whether or not the hunk is closed with *** EOF.
C22_AsStated ==
    EmptyContext => ret = <<args.start, 0>>

\* C22: for a hunk without context and deletion lines find_context returns
\* (start, 0) when the hunk is not closed with *** EOF, and (number of
\* lines of the file, 0) when it is: the fuzz is 0 in both cases.
C22_EmptyContext ==
    EmptyContext =>
        ret = <<IF args.eof THEN Len(args.fileLines) ELSE args.start, 0>>

\* an empty block anchored at the end of file, searched from an earlier
\* position
C22_Witness ==
    /\ EmptyContext
    /\ args.eof
    /\ args.start < Len(args.fileLines)
    /\ ret = <<Len(args.fileLines), 0>>

-----------------------------------------------------------------------------
(* text_to_patch on the patches that update a file by hunks that match at  *)
(* the later tiers and under the end-of-file anchor                         *)

\* the contents of p, as lines, with trailing and leading white space
FuzzFiles ==
    { << <<"a", " ">>, <<" ", "b">> >>,
      << <<"a">>, <<"b">>, <<"a", " ">> >> }

\* the hunks, the last three closed by *** EOF
FuzzHunks ==
    { << <<" ", "a">>, <<"-", "b">> >>,
      << <<"-", "a">>, <<"+", "c">> >>,
      << <<"+", "c">> >>,
      << <<"-", "b">>, END_OF_FILE_PREFIX >>,
      << <<"-", "a">>, <<"+", "c">>, END_OF_FILE_PREFIX >>,
      << <<"+", "c">>, END_OF_FILE_PREFIX >> }

InitFuzz ==
    /\ NoHistory
    /\ detail = <<>>
    /\ pc = "start"
    /\ \E fl \in FuzzFiles : \E n \in 0..MaxSegments : \E hs \in [1..n -> FuzzHunks] :
          /\ args = [file |-> fl, hunks |-> hs]
          /\ orig = [x \in {PathP} |-> join(fl)]
          /\ text = UpdateText(hs)
    /\ lines = <<>> /\ index = 0 /\ patch = <<>> /\ fuzz = 0 /\ upd = NoFrame
    /\ iters = 0 /\ err = "none" /\ commit = <<>> /\ ret = <<>>
    /\ NoIO

NextFuzz ==
    \/ TextToPatch
    \/ ParseUpdate
    \/ UpdateHunk
    \/ UpdateReturn
    \/ ParseEnd

SpecFuzz == InitFuzz /\ [][NextFuzz]_vars

-----------------------------------------------------------------------------
(* Properties of the fuzz total (SpecFuzz) *)

\* the lines of a hunk without the *** EOF line that closes it
HunkBody(h) == IF ClosedByEof(h) THEN SubSeq(h, 1, Len(h) - 1) ELSE h

\* the match of one hunk: <<index, fuzz>>, with the fuzz 0, 1 or 100 of the
\* tier and 10000 more when a hunk closed by *** EOF is not matched at the
\* file's tail
HunkMatch(fl, old, pos, eof) ==
    IF old = <<>> THEN <<IF eof THEN Len(fl) ELSE pos, 0>>
    ELSE LET tail == TierResult(fl, old, Len(fl) - Len(old))
             scan_ == TierResult(fl, old, pos)
         IN  IF eof /\ tail[1] # -1 THEN tail
             ELSE <<scan_[1], scan_[2] + (IF eof THEN 10000 ELSE 0)>>

\* the chunks of a hunk, moved by the index of its match
Moved(chunks, m) ==
    [k \in 1..Len(chunks) |->
        Chunk(chunks[k].orig_index + m, chunks[k].del_lines, chunks[k].ins_lines)]

\* the hunks from the k-th on, matched from pos on: the sum of their fuzz,
\* their chunks, and whether each was matched exactly without fallback
RECURSIVE HunksMatched(_, _, _, _)
HunksMatched(fl, hs, k, pos) ==
    IF k > Len(hs) THEN [fuzz |-> 0, chunks |-> <<>>, exact |-> TRUE]
    ELSE LET old  == OldOf(HunkBody(hs[k]))
             m    == HunkMatch(fl, old, pos, ClosedByEof(hs[k]))
             rest == HunksMatched(fl, hs, k + 1, m[1] + Len(old))
         IN  [fuzz   |-> m[2] + rest.fuzz,
              chunks |-> Moved(ExpectedChunks(HunkBody(hs[k])), m[1]) \o rest.chunks,
              exact  |-> m[2] = 0 /\ rest.exact]

FuzzRun == "hunks" \in DOMAIN args /\ args.file \in FuzzFiles

\* C23: the fuzz text_to_patch returns is the sum of the fuzz of its
\* matched hunks (0, 1 or 100 by the tier, and 10000 more for a hunk closed
\* by *** EOF that is matched by the fallback); it is 0 iff every hunk was
\* matched exactly and without fallback; every matched hunk adds its own
\* fuzz to the total; and the Patch returned is the one the indices of the
\* matches give, whatever the fuzz.
C23_FuzzTotal ==
    /\ []((FuzzRun /\ pc = "parsed") =>
            LET all == HunksMatched(args.file, args.hunks, 1, 0)
            IN  /\ fuzz = all.fuzz
                /\ fuzz = 0 <=> all.exact
                /\ patch = <<PatchAction(PathP, "update", Undefined, all.chunks, Undefined)>>)
    /\ [][(FuzzRun /\ UpdateHunk /\ pc' = "update") =>
            LET h == args.hunks[iters + 1]
            IN  fuzz' = fuzz + HunkMatch(upd.fileLines, OldOf(HunkBody(h)), upd.index,
                                         ClosedByEof(h))[2]]_vars

\* a patch was returned with a total made of a match after stripping
\* trailing white space, one after stripping all white space, and a fallback
C23_Witness ==
    /\ FuzzRun
    /\ pc = "parsed"
    /\ fuzz = 10101

-----------------------------------------------------------------------------
(* text_to_patch and patch_to_commit on hunks whose context reaches or      *)
(* passes the end of the file                                                *)

InsideFiles ==
    { << <<"a">> >>,
      << <<"a">>, <<"b">> >>,
      << <<"b">>, <<"a">>, <<"b">> >> }

\* the hunks, three of them closed by *** EOF
InsideHunks ==
    { << <<" ", "a">>, <<"-", "b">> >>,
      << <<"-", "b">>, <<"+", "c">> >>,
      << <<"+", "c">> >>,
      << <<" ", "a">>, <<"-", "b">>, END_OF_FILE_PREFIX >>,
      << <<"-", "a">>, END_OF_FILE_PREFIX >>,
      << <<"+", "c">>, END_OF_FILE_PREFIX >> }

InitInside ==
    /\ NoHistory
    /\ detail = <<>>
    /\ pc = "start"
    /\ \E fl \in InsideFiles : \E n \in 0..MaxSegments : \E hs \in [1..n -> InsideHunks] :
          /\ args = [file |-> fl, hunks |-> hs]
          /\ orig = [x \in {PathP} |-> join(fl)]
          /\ text = UpdateText(hs)
    /\ lines = <<>> /\ index = 0 /\ patch = <<>> /\ fuzz = 0 /\ upd = NoFrame
    /\ iters = 0 /\ err = "none" /\ commit = <<>> /\ ret = <<>>
    /\ NoIO

NextInside ==
    \/ TextToPatch
    \/ ParseUpdate
    \/ UpdateHunk
    \/ UpdateReturn
    \/ ParseEnd
    \/ PatchToCommit

SpecInside == InitInside /\ [][NextInside]_vars

-----------------------------------------------------------------------------
(* Properties of the match index (SpecInside) *)

InsideRun == "hunks" \in DOMAIN args /\ args.file \in InsideFiles

\* every chunk of every action of the Patch ends inside a file of n lines
ChunksInside(pt, n) ==
    \A a \in 1..Len(pt) : \A k \in 1..Len(pt[a].chunks) :
        /\ pt[a].chunks[k].orig_index >= 0
        /\ pt[a].chunks[k].orig_index + Len(pt[a].chunks[k].del_lines) <= n

\* C24: a match of a non-empty context lies inside the file: index >= 0 and
\* index + |context| <= |file_lines|, the hunk is then taken and the
\* running position moves to the end of the window; so every chunk of the
\* Patch text_to_patch returns has orig_index + |del_lines| <= the number
\* of lines of the original, and patch_to_commit never fails with a chunk
\* index beyond the file.
C24_InsideFile ==
    /\ [][(InsideRun /\ UpdateHunk) =>
            LET h     == args.hunks[iters + 1]
                old   == OldOf(HunkBody(h))
                found == find_context(upd.fileLines, old, upd.index, ClosedByEof(h))
            IN  (old # <<>> /\ found[1] # -1) =>
                    /\ found[1] >= 0
                    /\ found[1] + Len(old) <= Len(upd.fileLines)
                    /\ AnyTierAt(upd.fileLines, old, found[1])
                    /\ pc' = "update"
                    /\ upd'.index = found[1] + Len(old)]_vars
    /\ [](InsideRun =>
            /\ ChunksInside(patch, Len(args.file))
            /\ upd # NoFrame => upd.index <= Len(upd.fileLines)
            /\ err # "ChunkIndexTooLarge")

\* a context longer than the file, searched under the end-of-file anchor
\* from a negative index, was not found
C24_WitnessNegativeStart ==
    /\ InsideRun
    /\ pc = "failed" /\ err = "InvalidEOFContext"
    /\ Len(split(detail.ctxText)) > Len(args.file)

\* a Patch whose last chunk deletes the last line of the file was committed
C24_Witness ==
    /\ InsideRun
    /\ pc = "committed"
    /\ patch # <<>> /\ patch[1].chunks # <<>>
    /\ LET ch == patch[1].chunks[Len(patch[1].chunks)]
       IN  ch.del_lines # <<>> /\ ch.orig_index + Len(ch.del_lines) = Len(args.file)

-----------------------------------------------------------------------------
(* Properties of the destinations of a Commit (SpecProcess) *)

\* the paths an entry of the Commit writes and removes
WritesOf(change) ==
    IF change.type = "delete" THEN {}
    ELSE IF change.type = "update" /\ change.move_path # Undefined THEN {change.move_path}
    ELSE {change.path}
RemovesOf(change) ==
    IF change.type = "delete" THEN {change.path}
    ELSE IF change.type = "update" /\ change.move_path # Undefined THEN {change.path}
    ELSE {}

\* the calls of the entries of the Commit taken in the order f
RECURSIVE LogInOrder(_, _)
LogInOrder(f, n) ==
    IF n = 0 THEN <<>> ELSE LogInOrder(f, n - 1) \o ExpectedCalls(commit[f[n]])

CommitBuilt == pc \in {"committed", "done"}

\* C25: in a Commit built from a Patch that text_to_patch accepted no two
\* entries write the same path and no entry writes a path another entry
\* removes, so that the files after apply_commit are the same in whatever
\* order the entries are applied.
C25_DistinctDestinations ==
    CommitBuilt =>
        /\ \A i, j \in 1..Len(commit) :
              i # j =>
                 /\ WritesOf(commit[i]) \cap WritesOf(commit[j]) = {}
                 /\ WritesOf(commit[i]) \cap RemovesOf(commit[j]) = {}
        /\ \A f \in Permutations(1..Len(commit)) :
              FilesAfter(Originals, LogInOrder(f, Len(commit)))
                 = FilesAfter(Originals, ExpectedLog(Len(commit)))

-----------------------------------------------------------------------------
(* Properties of the messages file (SpecHistory) *)

\* what loadSession returns for a messages file with this content
Loaded(content) == IF trim(content) = <<>> THEN <<>> ELSE parseLines(content)

\* metadata.messageCount of a session directory is n, when it has a
\* metadata.json
CountIs(dir, n) == dir.metadata # <<>> => dir.metadata[1].messageCount = n

\* C26: a saveSession(id, msgs) leaves a session that loads as msgs, and an
\* addMessage(id, m) that returns leaves a session that loads as the
\* messages it loaded as before followed by m, also after a saveSession of
\* a non-empty array; after either, metadata.messageCount is the number of
\* messages the session loads as.
C26_RoundTrip ==
    [][/\ \A id \in CallIds : \A ms \in MessageLists :
             SaveSession(id, ms) =>
                 /\ Loaded(sessions'[id].messages) = ms
                 /\ CountIs(sessions'[id], Len(ms))
       /\ \A id \in CallIds : \A m \in MessageJson :
             (AddMessage(id, m) /\ ~ret'.threw) =>
                 /\ Loaded(sessions'[id].messages) = Append(Loaded(sessions[id].messages), m)
                 /\ CountIs(sessions'[id], Len(Loaded(sessions'[id].messages)))]_vars

-----------------------------------------------------------------------------
(* addMessage called without waiting for the calls before: the line handler *)
(* of the CLI is an async function that readline does not await, so the     *)
(* handlers of two lines run interleaved at their awaits                    *)

MaxTasks == 3

\* JSON.stringify(message) of the message the t-th call adds
TaskMessage == <<"m1", "m2", "m3", "m4">>

\* the session the calls add to
TaskSession == Uuid[1]

\* a session as createSession leaves it, which is the current one
InitConcurrent ==
    /\ pc = "history"
    /\ currentSessionId = TaskSession
    /\ sessions = [id \in {TaskSession} |->
                      [messages |-> <<>>, metadata |-> <<[messageCount |-> 0]>>]]
    /\ uuids = 1
    /\ tasks = <<>>
    /\ args = <<>>
    /\ ret = <<>>
    /\ PatchIdle

AtStep(t, at) == t \in DOMAIN tasks /\ tasks[t].pc = at

\* addMessage is called: jsonLine is built and fs.appendFile is started
CallAddMessage ==
    /\ pc = "history"
    /\ Len(tasks) < MaxTasks
    /\ tasks' = Append(tasks, [pc |-> "append", sessionId |-> TaskSession,
                               jsonLine |-> <<TaskMessage[Len(tasks) + 1], NL>>,
                               messageCount |-> 0])
    /\ UNCHANGED <<pc, text, orig, lines, index, patch, fuzz, upd, iters, err, commit, args,
                   ret, io, detail, currentSessionId, sessions, uuids>>

\* await fs.appendFile(messagesFile, jsonLine)
AppendFile(t) ==
    /\ AtStep(t, "append")
    /\ sessions' = [sessions EXCEPT ![tasks[t].sessionId].messages = @ \o tasks[t].jsonLine]
    /\ tasks' = [tasks EXCEPT ![t].pc = "count"]
    /\ UNCHANGED <<pc, text, orig, lines, index, patch, fuzz, upd, iters, err, commit, args,
                   ret, io, detail, currentSessionId, uuids>>

\* await fs.readFile(messagesFile), and the count of its lines
ReadFile(t) ==
    /\ AtStep(t, "count")
    /\ tasks' = [tasks EXCEPT
                   ![t].messageCount = countLines(sessions[tasks[t].sessionId].messages),
                   ![t].pc = "metadata"]
    /\ UNCHANGED <<pc, text, orig, lines, index, patch, fuzz, upd, iters, err, commit, args,
                   ret, io, detail, currentSessionId, sessions, uuids>>

\* updateSessionMetadata: await fs.readFile(metadataFile); the fields read
\* are all overwritten or not modelled
ReadMetadata(t) ==
    /\ AtStep(t, "metadata")
    /\ tasks' = [tasks EXCEPT ![t].pc = "write"]
    /\ UNCHANGED <<pc, text, orig, lines, index, patch, fuzz, upd, iters, err, commit, args,
                   ret, io, detail, currentSessionId, sessions, uuids>>

\* updateSessionMetadata: await fs.writeFile(metadataFile, ...), after which
\* addMessage returns
WriteMetadata(t) ==
    /\ AtStep(t, "write")
    /\ sessions' = [sessions EXCEPT ![tasks[t].sessionId].metadata =
                                       <<[messageCount |-> tasks[t].messageCount]>>]
    /\ tasks' = [tasks EXCEPT ![t].pc = "done"]
    /\ UNCHANGED <<pc, text, orig, lines, index, patch, fuzz, upd, iters, err, commit, args,
                   ret, io, detail, currentSessionId, uuids>>

NextConcurrent ==
    \/ CallAddMessage
    \/ \E t \in 1..MaxTasks : AppendFile(t)
    \/ \E t \in 1..MaxTasks : ReadFile(t)
    \/ \E t \in 1..MaxTasks : ReadMetadata(t)
    \/ \E t \in 1..MaxTasks : WriteMetadata(t)

SpecConcurrent == InitConcurrent /\ [][NextConcurrent]_vars

-----------------------------------------------------------------------------
(* Properties of the interleaved calls of addMessage (SpecConcurrent) *)

AllCompleted == Len(tasks) >= 2 /\ \A t \in 1..Len(tasks) : tasks[t].pc = "done"

\* the number of times the line is in the file
Occurrences(content, json) ==
    Cardinality({k \in 1..Len(content) : content[k] = json})

\* C27: when two or more calls of addMessage on one session ran interleaved
\* and all have returned, the messages file holds every added message
\* exactly once, each on a line of its own, and metadata.messageCount is
\* the number of messages in the file.
C27_ConcurrentAdd ==
    AllCompleted =>
        LET dir == sessions[TaskSession]
        IN  /\ \A t \in 1..Len(tasks) : Occurrences(dir.messages, TaskMessage[t]) = 1
            /\ Len(split(trim(dir.messages))) = Len(tasks)
            /\ dir.metadata = <<[messageCount |-> Len(tasks)]>>

-----------------------------------------------------------------------------
(* Properties of the current session (SpecHistory) *)

\* C28: getCurrentSessionId() is null or the id of a session whose
\* directory and messages file exist: a session deleted while it is the
\* current one does not stay the current one.
C28_CurrentSessionExists ==
    currentSessionId = "null" \/ currentSessionId \in DOMAIN sessions

=============================================================================
